---- MODULE Spec2Model ----
(***************************************************************************)
(* Model of lru_ng's LRUDict (src/src/lrudict_pq.h, the lrudict.c part)    *)
(* and of its purge queue (src/src/lrudict_statstype.h, the lrudict_pq.c   *)
(* part).                                                                  *)
(*                                                                         *)
(* Threads run under the GIL.  A step of the model is the code a thread    *)
(* runs between two points where foreign code may run and the GIL may be   *)
(* handed over: a key's __hash__/__eq__ inside a dict probe, a destructor  *)
(* of a key, value or callback object, and the eviction callback.          *)
(***************************************************************************)
EXTENDS Integers, Sequences, FiniteSets, TLC

\* ---------------------------------------------------------------- bounds
Threads == {1, 2}
Keys == {1, 2, 3}
Vals == {1, 2}
\* Key 3 and value 2 are instances of user-defined classes: their type is not
\* on the whitelist of lru_decref_unsafe(), their destructor runs foreign code
\* and, for the key, so do __hash__ and __eq__.  The others are ints.
UnsafeKeys == {3}
UnsafeVals == {2}
Callbacks == {1, 2}
NULL == 0
MaxSize == 2
MaxCount == 1
MaxStaging == 1
\* a Node is named by its key: the dict holds at most one Node per key, and a
\* Node that left the dict is private to one frame or held by the staging list
NodeIds == Keys
LRU_BATCH_MAX == 128

NO_FORCE_PURGE == 0
FORCE_PURGE == 1

\* sources of update(): a positional dict and the keyword dict, each a
\* sequence of (key, value) pairs in iteration order
Pair(k, v) == [key |-> k, value |-> v]

VARIABLES
    self,     \* the LRUDict object: its struct fields and the Nodes it owns
    frame,    \* per thread: the call in progress and where it is suspended
    ret,      \* outcome of the call that returned in the last step
    abs,      \* reference LRU map the container is compared with
    pq,       \* the purge queue: its list, sinfo.head/tail, pending_requests
    wk,       \* per worker: the lrupq_purge call in progress
    served,   \* per queued node: how many times it was passed to a callback
    freed,    \* the queued nodes reclaim has released
    pqenv     \* nodes appended so far; drains without callback; bad failures;
              \* swallowed failures

pqvars == <<pq, wk, served, freed, pqenv>>
vars == <<self, frame, ret, abs, pq, wk, served, freed, pqenv>>

\* ------------------------------------------------------------------ Node
FreeNode == [key |-> NULL, value |-> NULL, prev |-> NULL, next |-> NULL]

\* PyObject_New(Node, &NodeType) for a Node that will carry key k
NewNodeId(L, k) == k

\* what is left of a Node once it is unlinked: the references it owns
Item(L, n) == [key |-> L.node[n].key, value |-> L.node[n].value]

\* node_dealloc: the cell is returned; key and value are DECREF'ed
node_dealloc(L, ns) ==
    [L EXCEPT !.node = [n \in NodeIds |-> IF n \in ns THEN FreeNode ELSE @[n]]]

lru_decref_unsafe_key(k) == k \in UnsafeKeys
lru_decref_unsafe_value(v) == v \in UnsafeVals
NodeUnsafe(L, n) == \/ lru_decref_unsafe_value(L.node[n].value)
                    \/ lru_decref_unsafe_key(L.node[n].key)
ItemUnsafe(it) == \/ lru_decref_unsafe_value(it.value)
                  \/ lru_decref_unsafe_key(it.key)

\* ------------------------------------------------- critical section macros
\* faulty variant: the busy flag is never looked at
LRU_ENTER_CRIT_unchecked(L) == FALSE
LRU_ENTER_CRIT_always_detecting(L) == L.internal_busy

LRU_ENTER_CRIT_refused(L) == L.detect_conflict /\ L.internal_busy
LRU_ENTER_CRIT(L) == [L EXCEPT !.internal_busy = TRUE]
LRU_LEAVE_CRIT(L) == [L EXCEPT !.internal_busy = FALSE]

\* ----------------------------------------------------------- linked list
lru_remove_node_impl_keeping_last(L, n) ==
    LET nd == L.node[n]
        f1 == IF L.first = n THEN nd.next ELSE L.first
        n1 == IF nd.prev # NULL
                THEN [L.node EXCEPT ![nd.prev].next = nd.next] ELSE L.node
        n2 == IF nd.next # NULL
                THEN [n1 EXCEPT ![nd.next].prev = nd.prev] ELSE n1
    IN  [L EXCEPT !.first = f1, !.node = n2]

lru_remove_node_impl(L, n) ==
    LET nd == L.node[n]
        f1 == IF L.first = n THEN nd.next ELSE L.first
        l1 == IF L.last = n THEN nd.prev ELSE L.last
        n1 == IF nd.prev # NULL
                THEN [L.node EXCEPT ![nd.prev].next = nd.next] ELSE L.node
        n2 == IF nd.next # NULL
                THEN [n1 EXCEPT ![nd.next].prev = nd.prev] ELSE n1
    IN  [L EXCEPT !.first = f1, !.last = l1, !.node = n2]

lru_add_node_at_head_impl(L, n) ==
    IF L.first = NULL
      THEN [L EXCEPT !.first = n, !.last = n,
                     !.node[n].prev = NULL, !.node[n].next = NULL]
      ELSE [L EXCEPT !.node[n].prev = NULL, !.node[n].next = L.first,
                     !.node[L.first].prev = n, !.first = n]

lru_length_impl(L) == Cardinality({k \in Keys : L.dict[k] # NULL})

\* ---------------------------------------------------------------- eviction
\* faulty variant: the head of the list is evicted instead of the tail
lru_delete_first_impl(L) ==
    LET n == L.first IN
    IF n = NULL THEN L
    ELSE LET L1 == [L EXCEPT !.dict[L.node[n].key] = NULL]
             L2 == lru_remove_node_impl(L1, n)
         IN  IF L.callback # NULL \/ NodeUnsafe(L, n)
               THEN [node_dealloc(L2, {n})
                       EXCEPT !.staging_list = Append(@, Item(L, n)),
                              !.should_purge = TRUE]
               ELSE node_dealloc(L2, {n})

lru_delete_last_impl_callback_only(L) ==
    LET n == L.last IN
    IF n = NULL THEN L
    ELSE LET L1 == [L EXCEPT !.dict[L.node[n].key] = NULL]
             L2 == lru_remove_node_impl(L1, n)
         IN  IF L.callback # NULL
               THEN [node_dealloc(L2, {n})
                       EXCEPT !.staging_list = Append(@, Item(L, n)),
                              !.should_purge = TRUE]
               ELSE node_dealloc(L2, {n})

lru_delete_last_impl(L) ==
    LET n == L.last IN
    IF n = NULL THEN L
    ELSE LET L1 == [L EXCEPT !.dict[L.node[n].key] = NULL]
             L2 == lru_remove_node_impl(L1, n)
         IN  IF L.callback # NULL \/ NodeUnsafe(L, n)
               THEN [node_dealloc(L2, {n})
                       EXCEPT !.staging_list = Append(@, Item(L, n)),
                              !.should_purge = TRUE]
               ELSE node_dealloc(L2, {n})

\* ---------------------------------------------------------------- hit, push
\* faulty variant: a hit is counted but the Node is not moved to the head
lru_hit_unmoved(L, n) == [L EXCEPT !.hits = @ + 1]

lru_hit_impl(L, n) ==
    LET L1 == IF n # L.first
                THEN lru_add_node_at_head_impl(lru_remove_node_impl(L, n), n)
                ELSE L
    IN  [L1 EXCEPT !.hits = @ + 1]

\* faulty variant: nothing is evicted when the container is over its size
lru_insert_new_node_unbounded(L, n) ==
    lru_add_node_at_head_impl([L EXCEPT !.dict[L.node[n].key] = n], n)

lru_insert_new_node_impl(L, n) ==
    LET L1 == [L EXCEPT !.dict[L.node[n].key] = n]
        L2 == lru_add_node_at_head_impl(L1, n)
    IN  IF lru_length_impl(L2) > L2.size THEN lru_delete_last_impl(L2) ELSE L2

\* result: the new object and the replaced value (NULL when a key was added)
lru_push_impl(L, k, v) ==
    LET n == L.dict[k] IN
    IF n = NULL
      THEN LET m == NewNodeId(L, k)
               L1 == [L EXCEPT !.node[m] = [key |-> k, value |-> v,
                                            prev |-> NULL, next |-> NULL]]
           IN  [L |-> lru_insert_new_node_impl(L1, m), old |-> NULL]
      ELSE LET L1 == [L EXCEPT !.node[n].value = v]
               L2 == IF n # L1.first
                       THEN lru_add_node_at_head_impl(
                                lru_remove_node_impl(L1, n), n)
                       ELSE L1
           IN  [L |-> L2, old |-> L.node[n].value]

\* ------------------------------------------------------- frames and results
\* pc: where the call is suspended; op, key, val: the call and its arguments;
\* rs, rk, rv: what the call will return once its purge is over; i, len, cb:
\* the purge loop's index, length and borrowed callback; srcs, pos, blen: the
\* sources update() still has to read, the position in the first of them and
\* the length of its buffer; chg: update() has changed the container
IdleFrame == [pc |-> "idle", op |-> "none", key |-> NULL, val |-> NULL,
              rs |-> "none", rk |-> NULL, rv |-> NULL,
              i |-> 0, len |-> 0, cb |-> NULL,
              srcs |-> <<>>, pos |-> 0, blen |-> 0, chg |-> FALSE]
\* key is set only by the calls that return a key (popitem, peek)
NoRet == [op |-> "none", status |-> "none", key |-> NULL, val |-> NULL]
Ret(op, st, k, v) ==
    [op |-> op, status |-> st,
     key |-> IF op \in {"popitem", "peek_first", "peek_last"} THEN k ELSE NULL,
     val |-> v]

\* a call that has returned: no frame is left
Done(L, op, st, k, v) == [L |-> L, fr |-> IdleFrame, ret |-> Ret(op, st, k, v)]

\* Py_DECREF of an object the call took out of the container, after
\* LRU_LEAVE_CRIT, and the return of (op, st, k, v).  The destructor is
\* foreign code when the object is of an unsafe kind.
ReleaseThenReturn(L, unsafe, op, st, k, v) ==
    IF unsafe
      THEN [L |-> L,
            fr |-> [IdleFrame EXCEPT !.pc = "dealloc", !.op = op,
                                     !.rs = st, !.rk = k, !.rv = v],
            ret |-> NoRet]
      ELSE Done(L, op, st, k, v)

\* ------------------------------------------------------------------ purge
\* PyList_SetSlice(staging_list, 0, len, NULL), Py_DECREF(cb_tmp) and
\* purge_busy = 0.  The slice deletion and the DECREF run destructors, which
\* are foreign code when a deleted Node holds an unsafe key or value (pc
\* "purge_dealloc") or when cb_tmp is the last reference to a replaced
\* callback (pc "purge_cb_dealloc"): purge_busy is still set while they run.
PurgeSlice(L, len, cb) ==
    LET gone == {L.staging_list[j] : j \in 1..len}
        L1 == [L EXCEPT !.staging_list = SubSeq(@, len + 1, Len(@))]
    IN  IF \E it \in gone : ItemUnsafe(it)
          THEN [L |-> L1, pc |-> "purge_dealloc", len |-> len, cb |-> cb]
        ELSE IF cb # NULL /\ L.callback # cb
          THEN [L |-> L1, pc |-> "purge_cb_dealloc", len |-> len, cb |-> cb]
        ELSE [L |-> [L1 EXCEPT !.purge_busy = FALSE],
              pc |-> "idle", len |-> len, cb |-> cb]

\* lru_purge_staging_impl, up to its first suspension point
lru_purge_staging_impl(L, opt) ==
    IF opt # FORCE_PURGE /\ L.purge_suspended
      THEN [L |-> L, pc |-> "idle", len |-> 0, cb |-> NULL]
    ELSE IF ~L.should_purge \/ L.internal_busy \/ L.purge_busy
      THEN [L |-> L, pc |-> "idle", len |-> 0, cb |-> NULL]
    ELSE LET len == Len(L.staging_list)
             L1 == [L EXCEPT !.purge_busy = TRUE, !.should_purge = FALSE]
         IN  IF L.callback = NULL THEN PurgeSlice(L1, len, NULL)
             ELSE IF len = 0 THEN PurgeSlice(L1, 0, L.callback)
             ELSE [L |-> L1, pc |-> "callback", len |-> len, cb |-> L.callback]

\* the tail of a method that purges and then returns (op, st, k, v)
PurgeThenReturn(L, opt, op, st, k, v) ==
    LET p == lru_purge_staging_impl(L, opt)
        n == IF op = "purge" THEN p.len ELSE v
    IN  IF p.pc = "idle"
          THEN Done(p.L, op, st, k, n)
          ELSE [L |-> p.L,
                fr |-> [IdleFrame EXCEPT !.pc = p.pc, !.op = op, !.len = p.len,
                                         !.cb = p.cb, !.rs = st, !.rk = k,
                                         !.rv = n],
                ret |-> NoRet]

\* ------------------------------------------------------ the methods' bodies
\* Each body runs from just after LRU_ENTER_CRIT to the method's next
\* suspension point or return; f is the frame of the call.

lru_subscript_impl(L, k) ==
    LET n == L.dict[k] IN
    IF n = NULL THEN [L |-> [L EXCEPT !.misses = @ + 1], res |-> NULL]
                ELSE [L |-> lru_hit_impl(L, n), res |-> L.node[n].value]

LRU_subscript(L, f) ==
    LET r == lru_subscript_impl(L, f.key)
        L1 == LRU_LEAVE_CRIT(r.L)
    IN  IF r.res = NULL THEN Done(L1, "lookup", "KeyError", f.key, NULL)
                        ELSE Done(L1, "lookup", "ok", f.key, r.res)

LRU_get(L, f) ==
    LET r == lru_subscript_impl(L, f.key)
        L1 == LRU_LEAVE_CRIT(r.L)
    IN  IF r.res = NULL THEN Done(L1, "get", "ok", f.key, f.val)
                        ELSE Done(L1, "get", "ok", f.key, r.res)

lru_popnode_impl(L, k) ==
    LET n == L.dict[k] IN
    IF n = NULL THEN [L |-> L, node |-> NULL]
    ELSE [L |-> lru_remove_node_impl([L EXCEPT !.dict[k] = NULL], n),
          node |-> n]

\* LRU_ass_sub with value == NULL (del L[key])
LRU_ass_sub_delete(L, f) ==
    LET r == lru_popnode_impl(L, f.key)
        L1 == LRU_LEAVE_CRIT(r.L)
    IN  IF r.node = NULL THEN Done(L1, "remove", "KeyError", f.key, NULL)
        ELSE ReleaseThenReturn(node_dealloc(L1, {r.node}),
                               NodeUnsafe(L, r.node),
                               "remove", "ok", f.key, NULL)

\* faulty variant: the replaced value is released before LRU_LEAVE_CRIT
LRU_ass_sub_assign_early_release(L, f) ==
    LET p == lru_push_impl(L, f.key, f.val)
    IN  IF p.old # NULL
          THEN ReleaseThenReturn(p.L, lru_decref_unsafe_value(p.old),
                                 "assign", "ok", f.key, NULL)
          ELSE PurgeThenReturn(LRU_LEAVE_CRIT(p.L), NO_FORCE_PURGE,
                               "assign", "ok", f.key, NULL)

\* faulty variant: LRU_LEAVE_CRIT is forgotten
LRU_ass_sub_assign_unleft(L, f) ==
    LET p == lru_push_impl(L, f.key, f.val)
    IN  IF p.old # NULL
          THEN ReleaseThenReturn(p.L, lru_decref_unsafe_value(p.old),
                                 "assign", "ok", f.key, NULL)
          ELSE PurgeThenReturn(p.L, NO_FORCE_PURGE, "assign", "ok", f.key, NULL)

LRU_ass_sub_assign_unpurged(L, f) ==
    LET p == lru_push_impl(L, f.key, f.val)
        L1 == LRU_LEAVE_CRIT(p.L)
    IN  IF p.old # NULL
          THEN ReleaseThenReturn(L1, lru_decref_unsafe_value(p.old),
                                 "assign", "ok", f.key, NULL)
          ELSE Done(L1, "assign", "ok", f.key, NULL)

\* LRU_ass_sub with a value (L[key] = value)
LRU_ass_sub_assign(L, f) ==
    LET p == lru_push_impl(L, f.key, f.val)
        L1 == LRU_LEAVE_CRIT(p.L)
    IN  IF p.old # NULL
          THEN ReleaseThenReturn(L1, lru_decref_unsafe_value(p.old),
                                 "assign", "ok", f.key, NULL)
          ELSE PurgeThenReturn(L1, NO_FORCE_PURGE, "assign", "ok", f.key, NULL)

LRU_setdefault_miss(L, f) ==
    LET n == L.dict[f.key] IN
    IF n = NULL
      THEN LET m == NewNodeId(L, f.key)
               L1 == [L EXCEPT !.node[m] = [key |-> f.key, value |-> f.val,
                                            prev |-> NULL, next |-> NULL],
                               !.misses = @ + 1]
               L2 == LRU_LEAVE_CRIT(lru_insert_new_node_impl(L1, m))
           IN  PurgeThenReturn(L2, NO_FORCE_PURGE, "setdefault", "ok",
                               f.key, f.val)
      ELSE PurgeThenReturn(LRU_LEAVE_CRIT(lru_hit_impl(L, n)), NO_FORCE_PURGE,
                           "setdefault", "ok", f.key, L.node[n].value)

LRU_setdefault(L, f) ==
    LET n == L.dict[f.key] IN
    IF n = NULL
      THEN LET m == NewNodeId(L, f.key)
               L1 == [L EXCEPT !.node[m] = [key |-> f.key, value |-> f.val,
                                            prev |-> NULL, next |-> NULL]]
               L2 == LRU_LEAVE_CRIT(lru_insert_new_node_impl(L1, m))
           IN  PurgeThenReturn(L2, NO_FORCE_PURGE, "setdefault", "ok",
                               f.key, f.val)
      ELSE PurgeThenReturn(LRU_LEAVE_CRIT(lru_hit_impl(L, n)), NO_FORCE_PURGE,
                           "setdefault", "ok", f.key, L.node[n].value)

LRU_pop_kept(L, f) ==
    LET n == L.dict[f.key] IN
    IF n # NULL
      THEN Done(LRU_LEAVE_CRIT([L EXCEPT !.hits = @ + 1]),
                "pop", "ok", f.key, L.node[n].value)
      ELSE LET L1 == LRU_LEAVE_CRIT([L EXCEPT !.misses = @ + 1])
           IN  IF f.val # NULL THEN Done(L1, "pop", "ok", f.key, f.val)
                               ELSE Done(L1, "pop", "KeyError", f.key, NULL)

LRU_pop_default_uncounted(L, f) ==
    LET n == L.dict[f.key] IN
    IF n # NULL
      THEN LET L1 == [L EXCEPT !.dict[f.key] = NULL, !.hits = @ + 1]
               L2 == LRU_LEAVE_CRIT(lru_remove_node_impl(L1, n))
           IN  ReleaseThenReturn(node_dealloc(L2, {n}),
                                 lru_decref_unsafe_key(L.node[n].key),
                                 "pop", "ok", f.key, L.node[n].value)
      ELSE IF f.val # NULL
             THEN Done(LRU_LEAVE_CRIT(L), "pop", "ok", f.key, f.val)
             ELSE Done(LRU_LEAVE_CRIT([L EXCEPT !.misses = @ + 1]),
                       "pop", "KeyError", f.key, NULL)

\* f.val is the default, NULL when none was given
LRU_pop(L, f) ==
    LET n == L.dict[f.key] IN
    IF n # NULL
      THEN LET L1 == [L EXCEPT !.dict[f.key] = NULL, !.hits = @ + 1]
               L2 == LRU_LEAVE_CRIT(lru_remove_node_impl(L1, n))
           IN  ReleaseThenReturn(node_dealloc(L2, {n}),
                                 lru_decref_unsafe_key(L.node[n].key),
                                 "pop", "ok", f.key, L.node[n].value)
      ELSE LET L1 == LRU_LEAVE_CRIT([L EXCEPT !.misses = @ + 1])
           IN  IF f.val # NULL THEN Done(L1, "pop", "ok", f.key, f.val)
                               ELSE Done(L1, "pop", "KeyError", f.key, NULL)

LRU_popitem_last(L, f) ==
    LET n == L.last IN
    IF n = NULL
      THEN Done(LRU_LEAVE_CRIT(L), "popitem", "KeyError", NULL, NULL)
      ELSE LET L1 == [L EXCEPT !.dict[L.node[n].key] = NULL]
               L2 == LRU_LEAVE_CRIT(lru_remove_node_impl(L1, n))
           IN  Done(node_dealloc(L2, {n}), "popitem", "ok",
                    L.node[n].key, L.node[n].value)

\* f.val = 1 asks for the least recent item
LRU_popitem_empty_unleft(L, f) ==
    LET n == IF f.val = 1 THEN L.last ELSE L.first IN
    IF n = NULL
      THEN Done(L, "popitem", "KeyError", NULL, NULL)
      ELSE LET L1 == [L EXCEPT !.dict[L.node[n].key] = NULL]
               L2 == LRU_LEAVE_CRIT(lru_remove_node_impl(L1, n))
           IN  Done(node_dealloc(L2, {n}), "popitem", "ok",
                    L.node[n].key, L.node[n].value)

LRU_popitem_staging(L, f) ==
    LET n == IF f.val = 1 THEN L.last ELSE L.first IN
    IF n = NULL
      THEN Done(LRU_LEAVE_CRIT(L), "popitem", "KeyError", NULL, NULL)
      ELSE LET L1 == [L EXCEPT !.dict[L.node[n].key] = NULL,
                               !.staging_list = Append(@, Item(L, n)),
                               !.should_purge = TRUE]
               L2 == LRU_LEAVE_CRIT(lru_remove_node_impl(L1, n))
           IN  Done(node_dealloc(L2, {n}), "popitem", "ok",
                    L.node[n].key, L.node[n].value)

LRU_popitem(L, f) ==
    LET n == IF f.val = 1 THEN L.last ELSE L.first IN
    IF n = NULL
      THEN Done(LRU_LEAVE_CRIT(L), "popitem", "KeyError", NULL, NULL)
      ELSE LET L1 == [L EXCEPT !.dict[L.node[n].key] = NULL]
               L2 == LRU_LEAVE_CRIT(lru_remove_node_impl(L1, n))
           IN  Done(node_dealloc(L2, {n}), "popitem", "ok",
                    L.node[n].key, L.node[n].value)

LRU_clear_staging(L) ==
    LET L1 == [LRU_ENTER_CRIT(L) EXCEPT !.first = NULL, !.last = NULL,
                                        !.hits = 0, !.misses = 0]
        L2 == LRU_LEAVE_CRIT(L1)
        gone == {L2.dict[k] : k \in Keys} \ {NULL}
        L3 == [L2 EXCEPT !.dict = [k \in Keys |-> NULL],
                         !.staging_list =
                            IF L.last = NULL THEN @
                            ELSE Append(@, Item(L, L.last)),
                         !.should_purge = gone # {}]
    IN  ReleaseThenReturn(node_dealloc(L3, gone),
                          \E n \in gone : NodeUnsafe(L, n),
                          "clear", "ok", NULL, NULL)

LRU_clear(L) ==
    LET L1 == [LRU_ENTER_CRIT(L) EXCEPT !.first = NULL, !.last = NULL,
                                        !.hits = 0, !.misses = 0]
        L2 == LRU_LEAVE_CRIT(L1)
        gone == {L2.dict[k] : k \in Keys} \ {NULL}
        L3 == [L2 EXCEPT !.dict = [k \in Keys |-> NULL]]
    IN  ReleaseThenReturn(node_dealloc(L3, gone),
                          \E n \in gone : NodeUnsafe(L, n),
                          "clear", "ok", NULL, NULL)

RECURSIVE EvictDownTo(_, _)
EvictDownTo(L, newsize) ==
    IF lru_length_impl(L) > newsize /\ L.last # NULL
      THEN EvictDownTo(lru_delete_last_impl(L), newsize)
      ELSE L

lru_set_size_unvalidated(L, newsize) ==
    [L |-> EvictDownTo([L EXCEPT !.size = newsize], newsize), status |-> 0]

lru_set_size_impl(L, newsize) ==
    IF newsize <= 0 THEN [L |-> L, status |-> -1]
    ELSE [L |-> EvictDownTo([L EXCEPT !.size = newsize], newsize),
          status |-> 0]

LRU_size_setter_unpurged(L, f) ==
    LET r == lru_set_size_impl(L, f.val)
    IN  Done(LRU_LEAVE_CRIT(r.L), "resize",
             IF r.status = 0 THEN "ok" ELSE "ValueError", NULL, NULL)

\* f.val is the new size
LRU_size_setter(L, f) ==
    LET r == lru_set_size_impl(L, f.val)
    IN  PurgeThenReturn(LRU_LEAVE_CRIT(r.L), NO_FORCE_PURGE, "resize",
                        IF r.status = 0 THEN "ok" ELSE "ValueError",
                        NULL, NULL)

\* the tail of lru_set_callback_impl after Py_XDECREF(self->callback);
\* f.val is the new callback, NULL for None
LRU_callback_setter(L, f) ==
    Done(LRU_LEAVE_CRIT([L EXCEPT !.callback = f.val]),
         "set_callback", "ok", NULL, NULL)

LRU_purge_unforced(L) ==
    PurgeThenReturn([L EXCEPT !.should_purge = TRUE], NO_FORCE_PURGE,
                    "purge", "ok", NULL, 0)

LRU_purge(L) ==
    PurgeThenReturn([L EXCEPT !.should_purge = TRUE], FORCE_PURGE,
                    "purge", "ok", NULL, 0)

lru_contains_impl_absent(L, k) == 0

lru_contains_impl(L, k) == IF L.dict[k] # NULL THEN 1 ELSE 0

LRU_peek_first_item(L) ==
    IF L.first # NULL
      THEN Done(L, "peek_first", "ok", L.node[L.first].key, L.node[L.first].value)
      ELSE Done(L, "peek_first", "KeyError", NULL, NULL)

LRU_peek_last_item(L) ==
    IF L.last # NULL
      THEN Done(L, "peek_last", "ok", L.node[L.last].key, L.node[L.last].value)
      ELSE Done(L, "peek_last", "KeyError", NULL, NULL)

\* ------------------------------------------------- reference LRU map (abs)
\* What the container is meant to be: keys from most to least recently used,
\* the last value assigned to each, and the capacity.
Without(s, k) == SelectSeq(s, LAMBDA x : x # k)
AbsHas(a, k) == a.val[k] # NULL
AbsUse(a, k) == IF AbsHas(a, k)
                  THEN [a EXCEPT !.keys = <<k>> \o Without(@, k)] ELSE a
RECURSIVE AbsTrim(_)
AbsTrim(a) ==
    IF Len(a.keys) > a.cap
      THEN AbsTrim([a EXCEPT !.keys = SubSeq(@, 1, Len(@) - 1),
                             !.val[a.keys[Len(a.keys)]] = NULL])
      ELSE a
AbsPut(a, k, v) ==
    AbsTrim([a EXCEPT !.keys = <<k>> \o Without(@, k), !.val[k] = v])
AbsDel(a, k) == [a EXCEPT !.keys = Without(@, k), !.val[k] = NULL]
AbsClear(a) == [a EXCEPT !.keys = <<>>, !.val = [k \in Keys |-> NULL]]
AbsResize(a, n) == IF n <= 0 THEN a ELSE AbsTrim([a EXCEPT !.cap = n])
AbsPopItem(a, lr) ==
    IF a.keys = <<>> THEN a
    ELSE AbsDel(a, IF lr = 1 THEN a.keys[Len(a.keys)] ELSE a.keys[1])

\* the effect the call of frame f is meant to have on the reference map
AbsStep(a, f) ==
    CASE f.op \in {"lookup", "get"} -> AbsUse(a, f.key)
      [] f.op = "assign" -> AbsPut(a, f.key, f.val)
      [] f.op \in {"remove", "pop"} -> AbsDel(a, f.key)
      [] f.op = "setdefault" ->
            IF AbsHas(a, f.key) THEN AbsUse(a, f.key)
                                ELSE AbsPut(a, f.key, f.val)
      [] f.op = "popitem" -> AbsPopItem(a, f.val)
      [] f.op = "resize" -> AbsResize(a, f.val)
      [] OTHER -> a

\* ------------------------------------------------- suspension points
\* A probe of the dict for key k (NULL: for a stored key) runs foreign code
\* when it compares two distinct keys one of which has a Python-level __eq__
StoredKeys(L) == {j \in Keys : L.dict[j] # NULL}
ProbeMaySuspend(L, k) ==
    \E i \in StoredKeys(L) \cup ({k} \ {NULL}), j \in StoredKeys(L) :
        i # j /\ (i \in UnsafeKeys \/ j \in UnsafeKeys)
\* PyDict_GetItemWithError and _PyDict_Pop hash the key themselves
HashMaySuspend(k) == k \in UnsafeKeys

\* ------------------------------------------------ hashing of the key
\* How many times a call made with the key evaluates the key's hash:
\* PyObject_Hash and the dict functions that are given a bare key evaluate
\* it once (_PyDict_Pop not at all on an empty dict); the _KnownHash
\* functions are handed the hash and never evaluate it
DictHashes(L, api) ==
    CASE api \in {"PyObject_Hash", "PyDict_GetItemWithError",
                  "PyDict_Contains"} -> 1
      [] api = "_PyDict_Pop" -> IF lru_length_impl(L) = 0 THEN 0 ELSE 1
      [] api \in {"_PyDict_GetItem_KnownHash", "_PyDict_SetItem_KnownHash",
                  "_PyDict_DelItem_KnownHash"} -> 0

\* the calls each function makes with the key of the call, in code order
lru_insert_new_node_impl_rehashing(L) ==
    <<"PyObject_Hash", "_PyDict_SetItem_KnownHash">>

lru_insert_new_node_impl_calls(L) == <<"_PyDict_SetItem_KnownHash">>

lru_push_impl_calls(L, k) ==
    <<"_PyDict_GetItem_KnownHash">> \o
        (IF L.dict[k] = NULL THEN lru_insert_new_node_impl_calls(L)
                             ELSE << >>)

lru_popnode_impl_calls(L, k) ==
    <<"_PyDict_GetItem_KnownHash">> \o
        (IF L.dict[k] = NULL THEN << >>
                             ELSE <<"_PyDict_DelItem_KnownHash">>)

KeyOps == {"lookup", "get", "assign", "remove", "setdefault", "pop",
           "contains"}

HashCalls(L, f) ==
    CASE f.op \in {"lookup", "get"} -> <<"PyDict_GetItemWithError">>
      [] f.op = "assign" ->
            <<"PyObject_Hash">> \o lru_push_impl_calls(L, f.key)
      [] f.op = "remove" ->
            <<"PyObject_Hash">> \o lru_popnode_impl_calls(L, f.key)
      [] f.op = "setdefault" ->
            <<"PyObject_Hash", "_PyDict_GetItem_KnownHash">> \o
                (IF L.dict[f.key] = NULL
                   THEN lru_insert_new_node_impl_calls(L) ELSE << >>)
      [] f.op = "pop" -> <<"_PyDict_Pop">>
      [] f.op = "contains" -> <<"PyDict_Contains">>

HashCount(L, f) ==
    LET calls == HashCalls(L, f)
    IN  Cardinality({i \in DOMAIN calls : DictHashes(L, calls[i]) > 0})

\* ----------------------------------------------------------------- update
\* what a caller can tell of the container
Visible(L) == [dict |-> L.dict, node |-> L.node, first |-> L.first,
               last |-> L.last, size |-> L.size, hits |-> L.hits,
               misses |-> L.misses, callback |-> L.callback,
               staging_list |-> L.staging_list]

WithAbs(o, a) == [L |-> o.L, fr |-> o.fr, ret |-> o.ret, a |-> a]

Min(a, b) == IF a <= b THEN a ELSE b

RECURSIVE lru_update_fill_buffer_skipping(_, _, _, _, _, _)
lru_update_fill_buffer_skipping(L, a, src, pos, buf, blen) ==
    IF Len(buf) >= blen
      THEN [L |-> L, a |-> a, pos |-> Min(pos + 1, Len(src)), buf |-> buf,
            status |-> 1]
    ELSE IF pos >= Len(src)
      THEN [L |-> L, a |-> a, pos |-> pos, buf |-> buf, status |-> 0]
    ELSE LET pr == src[pos + 1]
             p == lru_push_impl(L, pr.key, pr.value)
         IN  lru_update_fill_buffer_skipping(
                 p.L, AbsPut(a, pr.key, pr.value), src, pos + 1,
                 IF p.old # NULL THEN Append(buf, p.old) ELSE buf, blen)

RECURSIVE lru_update_fill_buffer_unbounded(_, _, _, _, _, _)
lru_update_fill_buffer_unbounded(L, a, src, pos, buf, blen) ==
    IF pos >= Len(src)
      THEN [L |-> L, a |-> a, pos |-> pos, buf |-> buf, status |-> 0]
    ELSE LET pr == src[pos + 1]
             p == lru_push_impl(L, pr.key, pr.value)
         IN  lru_update_fill_buffer_unbounded(
                 p.L, AbsPut(a, pr.key, pr.value), src, pos + 1,
                 IF p.old # NULL THEN Append(buf, p.old) ELSE buf, blen)

RECURSIVE lru_update_fill_buffer(_, _, _, _, _, _)
\* buf is the buffer of replaced values, blen its capacity (updbuf->len);
\* status 1: source not exhausted, 0: exhausted
lru_update_fill_buffer(L, a, src, pos, buf, blen) ==
    IF Len(buf) >= blen
      THEN [L |-> L, a |-> a, pos |-> pos, buf |-> buf, status |-> 1]
    ELSE IF pos >= Len(src)
      THEN [L |-> L, a |-> a, pos |-> pos, buf |-> buf, status |-> 0]
    ELSE LET pr == src[pos + 1]
             p == lru_push_impl(L, pr.key, pr.value)
         IN  lru_update_fill_buffer(
                 p.L, AbsPut(a, pr.key, pr.value), src, pos + 1,
                 IF p.old # NULL THEN Append(buf, p.old) ELSE buf, blen)

\* the pairs of its first source update() has not read yet
Unread(f) == IF f.srcs = <<>> THEN {}
             ELSE {Head(f.srcs)[j] : j \in (f.pos + 1)..Len(Head(f.srcs))}

RECURSIVE lru_update_with(_, _, _)
lru_update_pass_purging(L, a, f) ==
    LET r == lru_update_fill_buffer(L, a, Head(f.srcs), f.pos, <<>>, f.blen)
        L1 == [LRU_LEAVE_CRIT(r.L) EXCEPT !.staging_list = <<>>,
                                          !.should_purge = FALSE]
        f1 == [f EXCEPT !.srcs = IF r.status = 0 THEN Tail(@) ELSE @,
                        !.pos = IF r.status = 0 THEN 0 ELSE r.pos,
                        !.chg = @ \/ Visible(r.L) # Visible(L)]
    IN  IF \E j \in 1..Len(r.buf) : lru_decref_unsafe_value(r.buf[j])
          THEN [L |-> L1, fr |-> [f1 EXCEPT !.pc = "sweep"],
                ret |-> NoRet, a |-> r.a]
          ELSE lru_update_with(L1, r.a, f1)

\* one pass of lru_update_with's loop from "self->internal_busy = 1" on:
\* fill the buffer, leave the critical section, sweep the buffer
lru_update_pass(L, a, f) ==
    LET r == lru_update_fill_buffer(L, a, Head(f.srcs), f.pos, <<>>, f.blen)
        L1 == LRU_LEAVE_CRIT(r.L)
        f1 == [f EXCEPT !.srcs = IF r.status = 0 THEN Tail(@) ELSE @,
                        !.pos = IF r.status = 0 THEN 0 ELSE r.pos,
                        !.chg = @ \/ Visible(r.L) # Visible(L)]
    IN  IF \E j \in 1..Len(r.buf) : lru_decref_unsafe_value(r.buf[j])
          THEN [L |-> L1, fr |-> [f1 EXCEPT !.pc = "sweep"],
                ret |-> NoRet, a |-> r.a]
          ELSE lru_update_with(L1, r.a, f1)

\* LRU_update and lru_update_with from the top of a pass: the sources are
\* read, or the container is busy (both end in the cleanup and its purge),
\* or the pass begins
lru_update_with(L, a, f) ==
    IF f.srcs = <<>>
      THEN WithAbs(PurgeThenReturn(L, NO_FORCE_PURGE, "update", "ok",
                                   NULL, NULL), a)
    ELSE IF LRU_ENTER_CRIT_refused(L)
      THEN WithAbs(PurgeThenReturn(L, NO_FORCE_PURGE, "update", "BusyError",
                                   NULL, NULL), a)
    ELSE IF \E pr \in Unread(f) :
                HashMaySuspend(pr.key) \/ ProbeMaySuspend(L, pr.key)
      THEN [L |-> LRU_ENTER_CRIT(L), fr |-> [f EXCEPT !.pc = "crit"],
            ret |-> NoRet, a |-> a]
    ELSE lru_update_pass(LRU_ENTER_CRIT(L), a, f)

\* srcs: the positional dict, if given, then the keyword dict, if any
LRU_update(L, a, srcs) ==
    lru_update_with(L, a, [IdleFrame EXCEPT !.op = "update", !.srcs = srcs,
                                            !.blen = Min(LRU_BATCH_MAX, L.size)])

\* ------------------------------------------------------------------- Init
\* LRU_init: LRUDict(size, callback)
\* ----------------------------------------------------------- purge queue
\* The purge queue of the queue-based build (LRUDict_pq): evicted nodes are
\* appended at the tail of lst, drains claim [head, tail) and walk it, and
\* the last drain to leave releases the list slots before head.
Workers == {1, 2, 3}
MaxItems == 4
Items == 1..MaxItems
Outcomes == {"ok", "swallowed", "bad"}
PENDING_MAX == 2

\* lrupq_new
lrupq_new == [lst |-> <<>>, head |-> 0, tail |-> 0, pending_requests |-> 0]

\* the locals of an lrupq_purge call, and claim, the size of the range the
\* call claimed; res and claim of an idle worker are those of its last call
IdleWorker == [pc |-> "idle", head |-> 0, tail |-> 0, i |-> 0, res |-> 0,
               claim |-> 0]
Returned(f, res) == [IdleWorker EXCEPT !.res = res, !.claim = f.claim]

\* PyList_GetItem with a C index: NULL (IndexError) outside the list
PyList_GetItem(lst, i) == IF i >= 0 /\ i < Len(lst) THEN lst[i + 1] ELSE NULL

\* PyList_SetSlice(lst, 0, ihigh, NULL): the slot range is clipped to the
\* list, the remaining items move to the front, the removed ones are
\* released after the list has been changed
SetSliceCut(lst, ihigh) == Min(IF ihigh < 0 THEN 0 ELSE ihigh, Len(lst))
PyList_SetSlice(lst, ihigh) == SubSeq(lst, SetSliceCut(lst, ihigh) + 1, Len(lst))
SliceItems(lst, ihigh) == {lst[j] : j \in 1..SetSliceCut(lst, ihigh)}

lrupq_err_none_bad(out) == FALSE

\* lrupq_err_bad: the failures a callback raises that are not swallowed
lrupq_err_bad(out) == out = "bad"

\* the for loop of lrupq_purge from index i on: slots PyList_GetItem fails
\* on are skipped; the result is the index of the next node that is passed
\* to the callback, or batch.tail when the loop ends
RECURSIVE lrupq_walk(_, _, _)
lrupq_walk(lst, i, tail) ==
    IF i >= tail THEN tail
    ELSE IF PyList_GetItem(lst, i) = NULL THEN lrupq_walk(lst, i + 1, tail)
    ELSE i

\* "Re-sync index information" and the final pending_requests--
lrupq_resync_head_only(q, res) ==
    [q EXCEPT !.head = @ - res, !.pending_requests = @ - 1]
lrupq_resync(q, res) ==
    [q EXCEPT !.head = @ - res, !.tail = @ - res, !.pending_requests = @ - 1]

\* the reclaim part of lrupq_purge, from "if (q->pending_requests == 0)" up
\* to the return of PyList_SetSlice's releases; rel are the released nodes
lrupq_reclaim(q, f) ==
    IF q.pending_requests = 0
      THEN LET rel == SliceItems(q.lst, q.head)
               q1 == [q EXCEPT !.pending_requests = 1,
                               !.lst = PyList_SetSlice(@, q.head)]
           IN IF rel = {}
                THEN [q |-> lrupq_resync(q1, q.head), rel |-> rel,
                      fr |-> Returned(f, q.head)]
                ELSE [q |-> q1, rel |-> rel,
                      fr |-> [IdleWorker EXCEPT !.pc = "reclaim",
                                                !.res = q.head,
                                                !.claim = f.claim]]
      ELSE [q |-> q, rel |-> {}, fr |-> Returned(f, 0)]

\* lrupq_purge from the loop's index i on, up to the next suspension: the
\* callback invoked on a node, or the destructors of the released nodes
lrupq_loop(q, f, i) ==
    LET j == lrupq_walk(q.lst, i, f.tail) IN
    IF j < f.tail
      THEN [q |-> q, rel |-> {}, call |-> PyList_GetItem(q.lst, j),
            fr |-> [f EXCEPT !.pc = "walk", !.i = j]]
      ELSE LET r == lrupq_reclaim([q EXCEPT !.pending_requests = @ - 1], f)
           IN [q |-> r.q, rel |-> r.rel, call |-> NULL, fr |-> r.fr]

\* lrupq_purge from entry; the caller has checked that it does not return
\* at once
lrupq_purge(q, callback) ==
    LET f == [IdleWorker EXCEPT !.head = q.head, !.tail = q.tail,
                                !.claim = q.tail - q.head]
        q1 == [q EXCEPT !.head = q.tail]
    IN IF callback # NULL
         THEN lrupq_loop([q1 EXCEPT !.pending_requests = @ + 1], f, f.head)
         ELSE LET r == lrupq_reclaim(q1, f)
              IN [q |-> r.q, rel |-> r.rel, call |-> NULL, fr |-> r.fr]

lrupq_skips_unsaturated(q) == q.tail = q.head

\* the early returns of lrupq_purge that change nothing
lrupq_skips(q) == q.tail = q.head \/ q.pending_requests = PENDING_MAX

Serve(sv, n) == IF n = NULL THEN sv ELSE [sv EXCEPT ![n] = @ + 1]

PQApply(w, o) ==
    /\ pq' = o.q
    /\ wk' = [wk EXCEPT ![w] = o.fr]
    /\ served' = Serve(served, o.call)
    /\ freed' = freed \cup o.rel

\* an eviction appends its node at the tail of the queue
PQAppend ==
    /\ pqenv.appended < MaxItems
    /\ pq' = [pq EXCEPT !.lst = Append(@, pqenv.appended + 1), !.tail = @ + 1]
    /\ pqenv' = [pqenv EXCEPT !.appended = @ + 1]
    /\ UNCHANGED <<self, frame, ret, abs, wk, served, freed>>

\* a drain is attempted on an empty or saturated queue: it returns 0
PQSkip(w) ==
    /\ wk[w].pc = "idle"
    /\ lrupq_skips(pq)
    /\ wk' = [wk EXCEPT ![w] = Returned(IdleWorker, 0)]
    /\ UNCHANGED <<self, frame, ret, abs, pq, served, freed, pqenv>>

\* a drain starts: claim [head, tail) and walk to the first callback
PQPurge(w, callback) ==
    /\ wk[w].pc = "idle"
    /\ ~lrupq_skips(pq)
    /\ PQApply(w, lrupq_purge(pq, callback))
    /\ pqenv' = [pqenv EXCEPT !.nocb = @ \/ callback = NULL]
    /\ UNCHANGED <<self, frame, ret, abs>>

PQCallbackReturn_bad_keeps_count(w, out) ==
    /\ wk[w].pc = "walk"
    /\ IF lrupq_err_bad(out)
         THEN /\ wk' = [wk EXCEPT ![w] = Returned(wk[w], -2)]
              /\ pqenv' = [pqenv EXCEPT !.bad = TRUE]
              /\ UNCHANGED <<pq, served, freed>>
         ELSE /\ PQApply(w, lrupq_loop(pq, wk[w], wk[w].i + 1))
              /\ pqenv' = [pqenv EXCEPT !.swallowed = @ \/ out = "swallowed"]
    /\ UNCHANGED <<self, frame, ret, abs>>

\* the callback returns to the walk with one of its outcomes
PQCallbackReturn(w, out) ==
    /\ wk[w].pc = "walk"
    /\ IF lrupq_err_bad(out)
         THEN /\ pq' = [pq EXCEPT !.pending_requests = @ - 1]
              /\ wk' = [wk EXCEPT ![w] = Returned(wk[w], -2)]
              /\ pqenv' = [pqenv EXCEPT !.bad = TRUE]
              /\ UNCHANGED <<served, freed>>
         ELSE /\ PQApply(w, lrupq_loop(pq, wk[w], wk[w].i + 1))
              /\ pqenv' = [pqenv EXCEPT !.swallowed = @ \/ out = "swallowed"]
    /\ UNCHANGED <<self, frame, ret, abs>>

\* the destructors of the nodes PyList_SetSlice released have returned
PQReclaimReturn(w) ==
    /\ wk[w].pc = "reclaim"
    /\ pq' = lrupq_resync(pq, wk[w].res)
    /\ wk' = [wk EXCEPT ![w] = Returned(wk[w], wk[w].res)]
    /\ UNCHANGED <<self, frame, ret, abs, served, freed, pqenv>>

InitQueue ==
    /\ pq = lrupq_new
    /\ wk = [w \in Workers |-> IdleWorker]
    /\ served = [n \in Items |-> 0]
    /\ freed = {}
    /\ pqenv = [appended |-> 0, nocb |-> FALSE, bad |-> FALSE,
                swallowed |-> FALSE]

InitSelf(sz, cb) ==
    [internal_busy |-> FALSE, detect_conflict |-> TRUE,
     should_purge |-> FALSE, purge_busy |-> FALSE, purge_suspended |-> FALSE,
     staging_list |-> <<>>, callback |-> cb,
     first |-> NULL, last |-> NULL,
     dict |-> [k \in Keys |-> NULL],
     size |-> sz, hits |-> 0, misses |-> 0,
     node |-> [n \in NodeIds |-> FreeNode]]

Init ==
    /\ \E sz \in 1..MaxSize, cb \in {NULL, 1} :
          /\ self = InitSelf(sz, cb)
          /\ abs = [keys |-> <<>>, val |-> [k \in Keys |-> NULL], cap |-> sz]
    /\ frame = [t \in Threads |-> IdleFrame]
    /\ ret = NoRet
    /\ InitQueue

\* ---------------------------------------------------------------- actions
Idle(t) == frame[t].pc = "idle"
WouldEvict(L, k) == L.dict[k] = NULL /\ lru_length_impl(L) >= L.size
CounterRoom(L, k) == IF L.dict[k] # NULL THEN L.hits < MaxCount
                                         ELSE L.misses < MaxCount

Apply(t, o, a) ==
    /\ self' = o.L
    /\ frame' = [frame EXCEPT ![t] = o.fr]
    /\ ret' = o.ret
    /\ abs' = a
    /\ UNCHANGED pqvars

\* LRU_ENTER_CRIT found the container busy: BusyError, nothing is changed
Refuse(t, op, k) ==
    /\ ret' = Ret(op, "BusyError", k, NULL)
    /\ UNCHANGED <<self, frame, abs>>
    /\ UNCHANGED pqvars

\* LRU_ENTER_CRIT passed and the probe of the dict suspends the call
Suspend(t, f) ==
    /\ self' = LRU_ENTER_CRIT(self)
    /\ frame' = [frame EXCEPT ![t] = f]
    /\ ret' = NoRet
    /\ UNCHANGED abs
    /\ UNCHANGED pqvars

Body(L, f) ==
    CASE f.op = "lookup" -> LRU_subscript(L, f)
      [] f.op = "get" -> LRU_get(L, f)
      [] f.op = "assign" -> LRU_ass_sub_assign(L, f)
      [] f.op = "remove" -> LRU_ass_sub_delete(L, f)
      [] f.op = "setdefault" -> LRU_setdefault(L, f)
      [] f.op = "pop" -> LRU_pop(L, f)
      [] f.op = "popitem" -> LRU_popitem(L, f)
      [] f.op = "resize" -> LRU_size_setter(L, f)
      [] f.op = "set_callback" -> LRU_callback_setter(L, f)

\* a method with one critical section: refused, suspended in it, or run
Enter(t, f, maySuspend) ==
    IF LRU_ENTER_CRIT_refused(self) THEN Refuse(t, f.op, f.key)
    ELSE IF maySuspend THEN Suspend(t, f)
    ELSE Apply(t, Body(LRU_ENTER_CRIT(self), f), AbsStep(abs, f))

Call(op, k, v) == [IdleFrame EXCEPT !.pc = "crit", !.op = op, !.key = k, !.val = v]

Lookup(t, k) ==
    /\ Idle(t) /\ CounterRoom(self, k)
    /\ Enter(t, Call("lookup", k, NULL),
             HashMaySuspend(k) \/ ProbeMaySuspend(self, k))

Get(t, k, d) ==
    /\ Idle(t) /\ CounterRoom(self, k)
    /\ Enter(t, Call("get", k, d),
             HashMaySuspend(k) \/ ProbeMaySuspend(self, k))

Assign_hashing_inside(t, k, v) ==
    /\ Idle(t)
    /\ Enter(t, Call("assign", k, v),
             HashMaySuspend(k) \/ ProbeMaySuspend(self, k))

Assign(t, k, v) ==
    /\ Idle(t)
    /\ Enter(t, Call("assign", k, v), ProbeMaySuspend(self, k))

Remove(t, k) ==
    /\ Idle(t)
    /\ Enter(t, Call("remove", k, NULL), ProbeMaySuspend(self, k))

SetDefault(t, k, d) ==
    /\ Idle(t)
    /\ (self.dict[k] # NULL => self.hits < MaxCount)
    /\ Enter(t, Call("setdefault", k, d), ProbeMaySuspend(self, k))

\* _PyDict_Pop returns at once, without hashing, when the dict is empty
Pop(t, k, d) ==
    /\ Idle(t) /\ CounterRoom(self, k)
    /\ Enter(t, Call("pop", k, d),
             /\ lru_length_impl(self) > 0
             /\ HashMaySuspend(k) \/ ProbeMaySuspend(self, k))

PopItem(t, lr) ==
    /\ Idle(t)
    /\ Enter(t, Call("popitem", NULL, lr), ProbeMaySuspend(self, NULL))

Clear(t) ==
    /\ Idle(t)
    /\ IF LRU_ENTER_CRIT_refused(self) THEN Refuse(t, "clear", NULL)
       ELSE Apply(t, LRU_clear(self), AbsClear(abs))

Resize(t, n) ==
    /\ Idle(t)
    /\ Enter(t, Call("resize", NULL, n),
             n >= 1 /\ lru_length_impl(self) > n /\ ProbeMaySuspend(self, NULL))

\* lru_set_callback_impl: Py_XDECREF(self->callback) runs the destructor of
\* the old callback, inside the critical section, when this was the last
\* reference to it (no purge holds it as cb_tmp)
SetCallback(t, c) ==
    /\ Idle(t)
    /\ Enter(t, [Call("set_callback", NULL, c) EXCEPT !.pc = "cb_dealloc"],
             /\ self.callback # NULL /\ self.callback # c
             /\ \A u \in Threads : frame[u].cb # self.callback)

Purge(t) ==
    /\ Idle(t)
    /\ Apply(t, LRU_purge(self), abs)

Contains_entering(t, k) ==
    /\ Idle(t)
    /\ IF LRU_ENTER_CRIT_refused(self) THEN Refuse(t, "contains", k)
       ELSE Apply(t, Done(self, "contains", "ok", k,
                          lru_contains_impl(self, k)), abs)

Contains(t, k) ==
    /\ Idle(t)
    /\ Apply(t, Done(self, "contains", "ok", k, lru_contains_impl(self, k)), abs)

PeekFirst(t) == Idle(t) /\ Apply(t, LRU_peek_first_item(self), abs)
PeekLast(t) == Idle(t) /\ Apply(t, LRU_peek_last_item(self), abs)

\* the _suspend_purge property setter
SuspendPurge(t, b) ==
    /\ Idle(t) /\ self.purge_suspended # b
    /\ Apply(t, Done([self EXCEPT !.purge_suspended = b],
                     "suspend_purge", "ok", NULL, NULL), abs)

\* the evictions update(srcs) can make: its new keys less the free capacity
NewKeys(L, srcs) ==
    {k \in Keys : /\ L.dict[k] = NULL
                  /\ \E i \in 1..Len(srcs) : \E j \in 1..Len(srcs[i]) :
                         srcs[i][j].key = k}
MaxEvictions(L, srcs) ==
    LET n == Cardinality(NewKeys(L, srcs)) - (L.size - lru_length_impl(L))
    IN  IF n > 0 THEN n ELSE 0

Update(t, srcs) ==
    /\ Idle(t)
    /\ LET o == LRU_update(self, abs, srcs) IN Apply(t, o, o.a)

\* the foreign code that suspended a call inside its critical section returns
Resume(t) ==
    /\ frame[t].pc \in {"crit", "cb_dealloc"}
    /\ IF frame[t].op = "update"
         THEN LET o == lru_update_pass(self, abs, frame[t]) IN Apply(t, o, o.a)
         ELSE Apply(t, Body(self, frame[t]), AbsStep(abs, frame[t]))

\* the destructors of the replaced values swept from update()'s buffer return
SweepReturn(t) ==
    /\ frame[t].pc = "sweep"
    /\ LET o == lru_update_with(self, abs, frame[t]) IN Apply(t, o, o.a)

CallbackReturn_reloading(t) ==
    /\ frame[t].pc = "callback"
    /\ LET f == frame[t] IN
       IF f.i + 1 < f.len
         THEN /\ frame' = [frame EXCEPT ![t].i = f.i + 1,
                                        ![t].cb = self.callback]
              /\ ret' = NoRet
              /\ UNCHANGED <<self, abs>>
              /\ UNCHANGED pqvars
         ELSE LET p == PurgeSlice(self, f.len, f.cb) IN
              IF p.pc = "idle"
                THEN Apply(t, Done(p.L, f.op, f.rs, f.rk, f.rv), abs)
                ELSE Apply(t, [L |-> p.L, fr |-> [f EXCEPT !.pc = p.pc],
                               ret |-> NoRet], abs)

\* the callback returns (its exception, if any, is written as unraisable):
\* next item of the staging list, or the end of the loop
CallbackReturn(t) ==
    /\ frame[t].pc = "callback"
    /\ LET f == frame[t] IN
       IF f.i + 1 < f.len
         THEN /\ frame' = [frame EXCEPT ![t].i = f.i + 1]
              /\ ret' = NoRet
              /\ UNCHANGED <<self, abs>>
              /\ UNCHANGED pqvars
         ELSE LET p == PurgeSlice(self, f.len, f.cb) IN
              IF p.pc = "idle"
                THEN Apply(t, Done(p.L, f.op, f.rs, f.rk, f.rv), abs)
                ELSE Apply(t, [L |-> p.L, fr |-> [f EXCEPT !.pc = p.pc],
                               ret |-> NoRet], abs)

\* the destructor of the object the call released returns
DeallocReturn(t) ==
    /\ frame[t].pc = "dealloc"
    /\ LET f == frame[t] IN
       Apply(t, Done(self, f.op, f.rs, f.rk, f.rv), abs)

\* the destructors run by the slice deletion return: purge_busy = 0
PurgeDeallocReturn(t) ==
    /\ frame[t].pc \in {"purge_dealloc", "purge_cb_dealloc"}
    /\ LET f == frame[t] IN
       Apply(t, Done([self EXCEPT !.purge_busy = FALSE],
                     f.op, f.rs, f.rk, f.rv), abs)

\* ---------------------------------------------------------- specifications
\* The staging list is kept within m entries: a call is made only if the
\* evictions it can make fit
AssignFits(k, m) == WouldEvict(self, k) => Len(self.staging_list) < m
ResizeFits(n, m) ==
    n >= 1 => Len(self.staging_list) + lru_length_impl(self) - n <= m
UpdateFits(srcs, m) ==
    Len(self.staging_list) + MaxEvictions(self, srcs) <= m

\* The sources update() is given.  Keyword names are strings.
UpdateSources ==
    { << >>,
      << << Pair(1, 1), Pair(3, 1) >> >>,
      << << Pair(3, 2) >>, << Pair(1, 2) >> >> }

\* Two threads.  The first makes any call (a resize refused or shrinking),
\* the second assigns and purges; both use the keys HotKeys.
HotKeys == {1, 3}

Next ==
    \/ \E t \in {1} :
        \/ \E k \in HotKeys : Lookup(t, k)
        \/ \E k \in HotKeys, d \in {1} : Get(t, k, d)
        \/ \E k \in HotKeys : Remove(t, k)
        \/ \E k \in HotKeys, d \in Vals :
              AssignFits(k, MaxStaging) /\ SetDefault(t, k, d)
        \/ \E k \in HotKeys, d \in {NULL, 1} : Pop(t, k, d)
        \/ \E lr \in {0, 1} : PopItem(t, lr)
        \/ Clear(t)
        \/ \E n \in {0, 1} : ResizeFits(n, MaxStaging) /\ Resize(t, n)
        \/ \E srcs \in UpdateSources :
              UpdateFits(srcs, MaxStaging) /\ Update(t, srcs)
        \/ \E c \in {NULL, 1} : SetCallback(t, c)
        \/ SweepReturn(t)
    \/ \E t \in Threads :
        \/ \E k \in HotKeys, v \in Vals :
              AssignFits(k, MaxStaging) /\ Assign(t, k, v)
        \/ Purge(t)
        \/ Resume(t)
        \/ DeallocReturn(t)
        \/ CallbackReturn(t)
        \/ PurgeDeallocReturn(t)

Spec == Init /\ [][Next]_vars

\* One thread making any call with any key: the container as a sequential
\* program sees it (foreign code still runs, and returns, inside the calls).
\* The callback is the one the container was constructed with and purges
\* are not suspended: NextSuspend and NextCb cover those.
SeqSources ==
    { << >>,
      << << >> >>,
      << << Pair(1, 2), Pair(2, 1), Pair(3, 1) >> >>,
      << << Pair(3, 2), Pair(2, 2) >>, << Pair(1, 1) >> >> }

NextSeq ==
    \E t \in {1} :
        \/ \E k \in Keys : Lookup(t, k)
        \/ \E k \in Keys, d \in {1} : Get(t, k, d)
        \/ \E k \in Keys, v \in Vals :
              AssignFits(k, MaxStaging) /\ Assign(t, k, v)
        \/ \E k \in Keys : Remove(t, k)
        \/ \E k \in Keys, d \in Vals :
              AssignFits(k, MaxStaging) /\ SetDefault(t, k, d)
        \/ \E k \in Keys, d \in {NULL, 1} : Pop(t, k, d)
        \/ \E lr \in {0, 1} : PopItem(t, lr)
        \/ Clear(t)
        \/ \E n \in 0..MaxSize : ResizeFits(n, MaxStaging) /\ Resize(t, n)
        \/ \E srcs \in SeqSources :
              UpdateFits(srcs, MaxStaging) /\ Update(t, srcs)
        \/ Purge(t)
        \/ \E k \in Keys : Contains(t, k)
        \/ PeekFirst(t)
        \/ PeekLast(t)
        \/ Resume(t)
        \/ DeallocReturn(t)
        \/ SweepReturn(t)
        \/ CallbackReturn(t)
        \/ PurgeDeallocReturn(t)

SpecSeq == Init /\ [][NextSeq]_vars

\* One thread writing to the container with the keys HotKeys, purges
\* suspended or not: what is evicted while purges are suspended stays in the
\* staging list until purge() or a write made after purges are resumed
NextSuspend ==
    \E t \in {1} :
        \/ \E k \in HotKeys, v \in Vals :
              AssignFits(k, MaxStaging) /\ Assign(t, k, v)
        \/ \E k \in HotKeys : Remove(t, k)
        \/ \E k \in HotKeys, d \in {2} :
              AssignFits(k, MaxStaging) /\ SetDefault(t, k, d)
        \/ \E k \in HotKeys, d \in {NULL} : Pop(t, k, d)
        \/ \E lr \in {0, 1} : PopItem(t, lr)
        \/ \E n \in 0..MaxSize : ResizeFits(n, MaxStaging) /\ Resize(t, n)
        \/ \E srcs \in UpdateSources :
              UpdateFits(srcs, MaxStaging) /\ Update(t, srcs)
        \/ Purge(t)
        \/ \E b \in BOOLEAN : SuspendPurge(t, b)
        \/ Resume(t)
        \/ DeallocReturn(t)
        \/ SweepReturn(t)
        \/ CallbackReturn(t)
        \/ PurgeDeallocReturn(t)

SpecSuspend == Init /\ [][NextSuspend]_vars

\* A drain of several entries in one thread while the other replaces the
\* callback: the entries are staged while purges are suspended
MaxWalk == 2
NextCb ==
    \/ \E t \in {1} :
        \/ \E k \in {1, 2}, v \in {1} :
              AssignFits(k, MaxWalk) /\ Assign(t, k, v)
        \/ \E b \in BOOLEAN : SuspendPurge(t, b)
        \/ Purge(t)
        \/ CallbackReturn(t)
        \/ PurgeDeallocReturn(t)
    \/ \E t \in {2} :
        \/ \E c \in Callbacks \cup {NULL} : SetCallback(t, c)
        \/ Resume(t)

SpecCb == Init /\ [][NextCb]_vars

\* A container of three entries that is filled, reordered by assignments
\* and resized by one thread, with purges suspended or not: a resize evicts
\* up to two entries at once
ResizeSize == 3
ResizeStaging == 3
InitResize ==
    /\ \E cb \in {NULL, 1} :
          /\ self = InitSelf(ResizeSize, cb)
          /\ abs = [keys |-> <<>>, val |-> [k \in Keys |-> NULL],
                    cap |-> ResizeSize]
    /\ frame = [t \in Threads |-> IdleFrame]
    /\ ret = NoRet
    /\ InitQueue

NextResize ==
    \E t \in {1} :
        \/ \E k \in Keys, v \in {1} :
              AssignFits(k, ResizeStaging) /\ Assign(t, k, v)
        \/ \E n \in -1..ResizeSize :
              ResizeFits(n, ResizeStaging) /\ Resize(t, n)
        \/ \E b \in BOOLEAN : SuspendPurge(t, b)
        \/ Purge(t)
        \/ Resume(t)
        \/ CallbackReturn(t)
        \/ PurgeDeallocReturn(t)

SpecResize == InitResize /\ [][NextResize]_vars

\* update() on a container of three entries that one thread fills, resizes
\* and updates.  BatchMax stands for LRU_BATCH_MAX, scaled down so that a
\* source holds more pairs than one buffer of replaced values.
BatchMax == 2
UpdateSrcs ==
    { << << Pair(1, 1), Pair(2, 1), Pair(3, 1) >> >>,
      << << Pair(3, 1), Pair(2, 2), Pair(1, 1) >> >>,
      << << Pair(1, 2), Pair(2, 2) >>, << Pair(3, 2) >> >> }

\* LRU_update with updbuf.len = min(BatchMax, size)
CallUpdate(L, srcs) ==
    [IdleFrame EXCEPT !.op = "update", !.srcs = srcs,
                      !.blen = Min(BatchMax, L.size)]

UpdateBatched(t, srcs) ==
    /\ Idle(t)
    /\ LET o == lru_update_with(self, abs, CallUpdate(self, srcs))
       IN Apply(t, o, o.a)

NextUpdate ==
    \E t \in {1} :
        \/ \E k \in Keys, v \in {1} :
              AssignFits(k, ResizeStaging) /\ Assign(t, k, v)
        \/ \E n \in 1..ResizeSize :
              ResizeFits(n, ResizeStaging) /\ Resize(t, n)
        \/ \E srcs \in UpdateSrcs :
              UpdateFits(srcs, ResizeStaging) /\ UpdateBatched(t, srcs)
        \/ \E b \in BOOLEAN : SuspendPurge(t, b)
        \/ Purge(t)
        \/ Resume(t)
        \/ SweepReturn(t)
        \/ CallbackReturn(t)
        \/ PurgeDeallocReturn(t)

SpecUpdate == InitResize /\ [][NextUpdate]_vars

\* the purge queue under appends and the drains of two workers
NextPQ ==
    \/ PQAppend
    \/ \E w \in Workers :
          \/ \E callback \in {NULL, 1} : PQPurge(w, callback)
          \/ \E out \in Outcomes : PQCallbackReturn(w, out)
          \/ PQReclaimReturn(w)
          \/ PQSkip(w)

SpecPQ == Init /\ [][NextPQ]_vars

\* the purge queue used by one thread: a drain started inside a callback or
\* a destructor of worker 1 is nested in it (worker 2) and returns before
\* worker 1 goes on
Outer == 1
Inner == 2
NextNested ==
    \/ PQAppend
    \/ /\ wk[Inner].pc = "idle"
       /\ \/ PQPurge(Outer, 1)
          \/ \E out \in Outcomes : PQCallbackReturn(Outer, out)
          \/ PQReclaimReturn(Outer)
    \/ /\ wk[Outer].pc # "idle"
       /\ \/ PQPurge(Inner, 1)
          \/ \E out \in Outcomes : PQCallbackReturn(Inner, out)
          \/ PQReclaimReturn(Inner)

SpecNested == Init /\ [][NextNested]_vars

\* ------------------------------------------------ calls entered while busy
\* thread 1 assigns and looks up, and may be suspended inside the critical
\* section; thread 2 stands for the code that runs meanwhile and makes
\* every call of the interface
NextBusy ==
    \/ \E t \in {1} :
        \/ \E k \in HotKeys, v \in {1} :
              AssignFits(k, MaxStaging) /\ Assign(t, k, v)
        \/ \E k \in HotKeys :
              /\ self.hits < MaxCount /\ self.misses < MaxCount
              /\ Lookup(t, k)
    \/ \E t \in {2} :
        \/ \E k \in HotKeys : CounterRoom(self, k) /\ Lookup(t, k)
        \/ \E k \in HotKeys, d \in {1} : Get(t, k, d)
        \/ \E k \in HotKeys, v \in {2} :
              AssignFits(k, MaxStaging) /\ Assign(t, k, v)
        \/ \E k \in HotKeys : Remove(t, k)
        \/ \E k \in HotKeys, d \in {1} :
              AssignFits(k, MaxStaging) /\ SetDefault(t, k, d)
        \/ \E k \in HotKeys, d \in {NULL} : Pop(t, k, d)
        \/ \E lr \in {0, 1} : PopItem(t, lr)
        \/ Clear(t)
        \/ \E n \in {1} : ResizeFits(n, MaxStaging) /\ Resize(t, n)
        \/ \E srcs \in UpdateSources :
              UpdateFits(srcs, MaxStaging) /\ Update(t, srcs)
        \/ \E c \in {NULL, 1} : SetCallback(t, c)
        \/ \E k \in HotKeys : Contains(t, k)
        \/ PeekFirst(t)
        \/ PeekLast(t)
        \/ SweepReturn(t)
        \/ DeallocReturn(t)
    \/ \E t \in Threads :
        \/ Purge(t)
        \/ Resume(t)
        \/ CallbackReturn(t)
        \/ PurgeDeallocReturn(t)

SpecBusy == Init /\ [][NextBusy]_vars

\* --------------------------------------------- conflict detection off
\* the _detect_conflict property setter (MAP_BITFIELD): no critical section
DetectConflict(t, b) ==
    /\ Idle(t) /\ self.detect_conflict # b
    /\ Apply(t, Done([self EXCEPT !.detect_conflict = b],
                     "detect_conflict", "ok", NULL, NULL), abs)

\* two threads, the flag switched at will: calls are entered while another
\* call is suspended inside its critical section
\* (a suspended lookup may find on resumption what it missed on entry, so
\* both counters are bounded at entry)
NextNoDetect ==
    \/ \E t \in {1} :
        \/ \E b \in BOOLEAN : DetectConflict(t, b)
        \/ \E k \in HotKeys :
              /\ self.hits < MaxCount /\ self.misses < MaxCount
              /\ Lookup(t, k)
        \/ \E k \in HotKeys : Remove(t, k)
    \/ \E t \in {2} :
        \/ Clear(t)
        \/ \E srcs \in UpdateSources :
              UpdateFits(srcs, MaxStaging) /\ Update(t, srcs)
        \/ SweepReturn(t)
    \/ \E t \in Threads :
        \/ \E k \in HotKeys, v \in {1} :
              AssignFits(k, MaxStaging) /\ Assign(t, k, v)
        \/ Purge(t)
        \/ Resume(t)
        \/ DeallocReturn(t)
        \/ CallbackReturn(t)
        \/ PurgeDeallocReturn(t)

SpecNoDetect == Init /\ [][NextNoDetect]_vars

\* ------------------------------------------------------------ observations
RECURSIVE Walk(_, _, _)
\* keys(): the keys met from self->first along ->next (at most fuel nodes)
Walk(L, n, fuel) ==
    IF n = NULL \/ fuel = 0 THEN <<>>
    ELSE <<L.node[n].key>> \o Walk(L, L.node[n].next, fuel - 1)
LRU_keys(L) == Walk(L, L.first, Cardinality(NodeIds) + 1)

Quiescent == \A t \in Threads : frame[t].pc = "idle"

\* stored value of key k, NULL when k is not stored
Value(L, k) == IF L.dict[k] = NULL THEN NULL ELSE L.node[L.dict[k]].value
Range(q) == {q[j] : j \in 1..Len(q)}
\* thread t is between LRU_ENTER_CRIT and LRU_LEAVE_CRIT
InCrit(t) == frame[t].pc \in {"crit", "cb_dealloc"}

\* ------------------------------------------------------------------ claims

\* C1: with detect_conflict on, whenever no call is in progress the number of
\* entries of the dict equals the length of the linked list and is at most
\* size, whatever calls were made before.
C1_LengthWithinSize ==
    Quiescent =>
        /\ self.detect_conflict
        /\ lru_length_impl(self) = Len(LRU_keys(self))
        /\ lru_length_impl(self) <= self.size

\* a quiescent full container of two entries, after an update went through
C1_Witness ==
    /\ Quiescent
    /\ lru_length_impl(self) = self.size /\ self.size > 1
    /\ ret.op = "update" /\ ret.status = "ok"

\* the push of assign(k, v) by thread t runs in this step
AssignRuns(t, k, v) ==
    \/ /\ frame[t].pc = "crit" /\ frame[t].op = "assign"
       /\ frame[t].key = k /\ frame[t].val = v
       /\ Resume(t)
    \/ /\ Idle(t) /\ (ret'.op = "assign" \/ frame'[t].op = "assign")
       /\ ~LRU_ENTER_CRIT_refused(self) /\ ~ProbeMaySuspend(self, k)
       /\ Assign(t, k, v)

\* C2: assign(k, v) of an absent key k to a full container removes the tail
\* of the list, and only it, from dict and list and makes k the head; to a
\* container that is not full it removes nothing.
C2_AssignEvictsTail ==
    [][\A t \in Threads, k \in Keys, v \in Vals :
          (self.dict[k] = NULL /\ AssignRuns(t, k, v)) =>
             LET old == LRU_keys(self)
                 kept == IF lru_length_impl(self) = self.size
                           THEN SubSeq(old, 1, Len(old) - 1) ELSE old
             IN  /\ LRU_keys(self') = <<k>> \o kept
                 /\ \A j \in Keys :
                       Value(self', j) = IF j = k THEN v
                                         ELSE IF j \in Range(kept)
                                                THEN Value(self, j) ELSE NULL
                 /\ StoredKeys(self') = Range(kept) \cup {k}]_vars

\* an assign to a full container of two evicted one entry, kept the other,
\* and is now running the callback for the evicted one
C2_Witness ==
    /\ frame[1].op = "assign" /\ frame[1].pc = "callback"
    /\ self.size = 2 /\ lru_length_impl(self) = 2
    /\ Len(self.staging_list) = 1

\* C3: keys() lists the stored keys from most to least recently used and
\* each stored key has the last value assigned to it: the container agrees
\* with the reference map, and a successful lookup returns the value of the
\* key it has just made first.
C3_RefinesReference ==
    /\ LRU_keys(self) = abs.keys
    /\ \A k \in Keys : Value(self, k) = abs.val[k]
    /\ (ret.op = "lookup" /\ ret.status = "ok") =>
          (abs.keys # <<>> /\ ret.val = abs.val[abs.keys[1]])

\* a successful lookup has just promoted one of two stored keys
C3_Witness ==
    /\ ret.op = "lookup" /\ ret.status = "ok"
    /\ Len(abs.keys) = 2 /\ self.hits = 1

\* C4: with detect_conflict on, at most one call is inside a critical section.
C4_OneInCritical ==
    /\ Cardinality({t \in Threads : InCrit(t)}) <= 1
    /\ (\E t \in Threads : InCrit(t)) => self.internal_busy

\* a call is suspended inside its critical section and another was refused
C4_Witness ==
    /\ \E t \in Threads : InCrit(t)
    /\ ret.status = "BusyError"

\* C5: while an assign is suspended inside its critical section another
\* assign is refused with BusyError and changes nothing, and the suspended
\* assign then completes: its key is first with its value, busy is cleared,
\* and it does not fail.
C5_InnerRefusedOuterCompletes ==
    [][\A t \in Threads :
          (frame[t].pc = "crit" /\ frame[t].op = "assign") =>
             /\ \A u \in Threads \ {t}, k \in Keys, v \in Vals :
                   Assign(u, k, v) =>
                      /\ ret'.status = "BusyError"
                      /\ UNCHANGED <<self, frame>>
             /\ Resume(t) =>
                   /\ ~self'.internal_busy
                   /\ Value(self', frame[t].key) = frame[t].val
                   /\ self'.first = self'.dict[frame[t].key]
                   /\ self'.first # NULL
                   /\ frame'[t].pc \in {"idle", "dealloc", "callback",
                                        "purge_dealloc", "purge_cb_dealloc"}
                   /\ ret'.status \in {"ok", "none"}]_vars

\* an assign is suspended inside its critical section and the assign that
\* re-entered the container has just been refused
C5_Witness ==
    /\ \E t \in Threads : frame[t].pc = "crit" /\ frame[t].op = "assign"
    /\ ret.op = "assign" /\ ret.status = "BusyError"

CallbackStarts(t) ==
    /\ frame'[t].pc = "callback"
    /\ frame[t].pc # "callback" \/ frame'[t].i # frame[t].i

\* C7: when no call is suspended by a key's hash or equality, busy is false
\* at the start of every invocation of the callback.
C7_CallbackOutsideCritical ==
    [][\A t \in Threads :
          (CallbackStarts(t) /\ \A u \in Threads : frame'[u].pc # "crit")
             => ~self'.internal_busy]_vars

\* thread t is running the destructor of a replaced value (assign, update),
\* of a removed Node (remove, pop, clear) or of an evicted unsafe Node
Destructing(t) == frame[t].pc \in {"dealloc", "sweep", "purge_dealloc"}

\* C8 as stated: no destructor of a replaced value, a removed Node or an
\* evicted unsafe Node runs while busy is set.
C8_NoDestructorWhileBusy ==
    \A t \in Threads : Destructing(t) => ~self.internal_busy

\* C8 amended: such a destructor is started only after the call that
\* displaced the object has left its critical section; busy is set while it
\* runs only when another call has since entered a critical section.
C8_DestructorOutsideOwnCritical ==
    \A t \in Threads :
        (Destructing(t) /\ self.internal_busy) =>
            \E u \in Threads \ {t} : InCrit(u)

\* a destructor is running in one thread and another call, entered since,
\* is suspended inside its critical section
C8_Witness ==
    \E t \in Threads : \E u \in Threads \ {t} : Destructing(t) /\ InCrit(u)


\* C9: no node of the purge queue is passed to the eviction callback more
\* than once, whatever the interleaving of drains
C9_ServedAtMostOnce ==
    \A n \in Items : served[n] <= 1

\* C10: when every drain has a callback and no callback failed with a
\* failure that is not swallowed, every node the queue has released was
\* passed to the callback before
C10_NoneLeavesUnserved ==
    (~pqenv.nocb /\ ~pqenv.bad) => \A n \in freed : served[n] >= 1


\* C11: within one thread the callback invocations start in the order in
\* which the nodes were appended to the purge queue (nodes are numbered in
\* append order), nested drains included: when the callback is invoked on a
\* node, it has not been invoked on any node appended later
C11_CallbacksInAppendOrder ==
    [][\A n \in Items :
          served'[n] > served[n] =>
             \A m \in Items : m > n => served[m] = 0]_vars


\* the container after L[0] = 0 on a new LRUDict(1, callback): one key of a
\* built-in type (key 1 with value 1 here), nothing staged
AfterFirstAssign ==
    /\ self.size = 1 /\ self.callback # NULL
    /\ LRU_keys(self) = <<1>> /\ Value(self, 1) = 1
    /\ self.staging_list = <<>>
    /\ ~self.purge_suspended /\ ~self.purge_busy /\ ~self.internal_busy

\* C12 as stated: the callback invocation for the evicted (0, 0) does not
\* occur during the second assignment L[1] = 1, only after it has returned
C12_CallbackAfterAssignReturns ==
    [][\A t \in Threads :
          (Idle(t) /\ AfterFirstAssign /\ Assign(t, 2, 1)) =>
             frame'[t].pc # "callback"]_vars

\* C12 amended: the second assignment invokes the callback exactly once, on
\* the evicted pair, after it has left its critical section and before it
\* returns; it returns when that one invocation has returned
C12_CallbackInsideAssignAfterCritical ==
    [][\A t \in Threads :
          /\ (Idle(t) /\ AfterFirstAssign /\ Assign(t, 2, 1)) =>
                /\ frame'[t].pc = "callback" /\ frame'[t].op = "assign"
                /\ frame'[t].i = 0 /\ frame'[t].len = 1
                /\ self'.staging_list = <<Pair(1, 1)>>
                /\ ~self'.internal_busy
                /\ LRU_keys(self') = <<2>>
                /\ ret' = NoRet
          /\ (/\ frame[t].pc = "callback" /\ frame[t].op = "assign"
              /\ frame[t].len = 1 /\ self.staging_list = <<Pair(1, 1)>>
              /\ self.size = 1 /\ LRU_keys(self) = <<2>>
              /\ CallbackReturn(t)) =>
                /\ ret'.op = "assign" /\ ret'.status = "ok"
                /\ frame'[t] = IdleFrame
                /\ self'.staging_list = <<>>]_vars

\* the callback is running on the evicted pair inside the second assignment
C12_Witness ==
    \E t \in Threads :
       /\ frame[t].pc = "callback" /\ frame[t].op = "assign"
       /\ frame[t].rk = 2 /\ frame[t].len = 1
       /\ self.staging_list = <<Pair(1, 1)>>
       /\ self.size = 1 /\ self.hits = 0 /\ self.misses = 0


C14_SuspendedDrainsOnlyByPurge ==
    [][/\ self.purge_suspended =>
          /\ \A t \in Threads :
                (frame[t].pc # "callback" /\ frame'[t].pc = "callback")
                   => frame'[t].op = "purge"
          /\ (/\ ret'.op # "purge"
              /\ \A u \in Threads :
                    frame[u].op # "purge" /\ frame'[u].op # "purge")
                => /\ Len(self'.staging_list) >= Len(self.staging_list)
                   /\ SubSeq(self'.staging_list, 1, Len(self.staging_list))
                         = self.staging_list
          /\ \A t \in Threads :
                (/\ Idle(t) /\ self.staging_list # <<>> /\ self.callback # NULL
                 /\ (ret'.op = "purge" \/ frame'[t].op = "purge") /\ Purge(t))
                   => /\ frame'[t].pc = "callback" /\ frame'[t].i = 0
                      /\ frame'[t].len = Len(self.staging_list)
                      /\ self'.staging_list = self.staging_list
          /\ (ret'.op = "purge" /\ \E t \in Threads : frame[t].op = "purge")
                => self'.staging_list = <<>>
       /\ ret'.op = "suspend_purge" =>
             \A t \in Threads, b \in BOOLEAN :
                SuspendPurge(t, b) =>
                   /\ self' = [self EXCEPT !.purge_suspended = b]
                   /\ frame' = frame]_vars

\* purge() is invoking the callback on staged nodes while purging is
\* suspended
C14_Witness ==
    \E t \in Threads :
       /\ self.purge_suspended /\ frame[t].pc = "callback"
       /\ frame[t].op = "purge" /\ self.staging_list # <<>>


C16_SaturatedDrainSkips ==
    [][\A w \in Workers :
          /\ (/\ wk[w].pc = "idle" /\ wk'[w] # wk[w]
              /\ pq.pending_requests = PENDING_MAX)
                => /\ pq' = pq /\ served' = served /\ freed' = freed
                   /\ wk'[w].pc = "idle" /\ wk'[w].res = 0
          /\ (/\ wk[w].pc = "idle" /\ wk'[w] # wk[w]
              /\ pq.pending_requests < PENDING_MAX /\ pq.tail # pq.head)
                => /\ wk'[w].claim = pq.tail - pq.head
                   /\ pq'.head >= pq.tail \/ wk'[w].pc = "idle"]_vars

\* the queue is saturated with nodes waiting in [head, tail) and a worker
\* free to attempt a drain
C16_Witness ==
    /\ pq.pending_requests = PENDING_MAX /\ pq.tail > pq.head
    /\ \E w \in Workers : wk[w].pc = "idle"


C18_DeliveredToInstalledCallback ==
    [][\A t \in Threads :
          (/\ frame'[t].pc = "callback"
           /\ frame[t].pc # "callback" \/ frame'[t].i # frame[t].i)
             => frame'[t].cb = self'.callback]_vars

\* C18 amended: a drain borrows the installed callback when it starts and
\* hands every node of its walk to that callback; replacing the callback
\* during the drain does not change the callback the drain invokes
C18_DeliveredToCallbackAtDrainStart ==
    [][\A t \in Threads :
          frame'[t].pc = "callback" =>
             IF frame[t].pc = "callback"
               THEN frame'[t].cb = frame[t].cb
               ELSE frame'[t].cb = self.callback /\ self.callback # NULL]_vars

\* the drain is at its second node, invoking the callback it borrowed when
\* it started, while another callback has been installed since
C18_Witness ==
    \E t \in Threads :
        /\ frame[t].pc = "callback" /\ frame[t].i = 1
        /\ self.callback # NULL /\ frame[t].cb # self.callback


C20_NonPositiveResizeRefused ==
    /\ [](self.size >= 1)
    /\ [][\A t \in Threads : \A n \in {-1, 0} :
             (Idle(t) /\ Resize(t, n)) =>
                LET st == IF LRU_ENTER_CRIT_refused(self) THEN "BusyError"
                                                          ELSE "ValueError"
                IN /\ self'.size = self.size
                   /\ self'.dict = self.dict
                   /\ self'.node = self.node
                   /\ LRU_keys(self') = LRU_keys(self)
                   /\ IF frame'[t].pc = "idle"
                        THEN ret'.op = "resize" /\ ret'.status = st
                        ELSE frame'[t].op = "resize" /\ frame'[t].rs = st]_vars

\* a resize of a full container of three entries has just been refused
C20_Witness ==
    /\ ret.op = "resize" /\ ret.status = "ValueError"
    /\ Len(LRU_keys(self)) = 3 /\ self.size >= 3


\* C21: clear() that is not refused leaves the container empty (dict and
\* linked list) with hits = misses = 0 and leaves the staging list and
\* should_purge as they were; a call of clear() is never inside a callback
\* walk, and the return of the destructors it ran changes nothing
C21_ClearEmptiesWithoutCallback ==
    /\ [](\A t \in Threads :
             frame[t].op = "clear" => frame[t].pc = "dealloc")
    /\ [][\A t \in Threads :
             /\ (/\ ret'.op = "clear" \/ frame'[t].op = "clear"
                 /\ Idle(t) /\ ~LRU_ENTER_CRIT_refused(self) /\ Clear(t)) =>
                   /\ lru_length_impl(self') = 0
                   /\ LRU_keys(self') = <<>> /\ self'.last = NULL
                   /\ \A n \in NodeIds : self'.node[n] = FreeNode
                   /\ self'.hits = 0 /\ self'.misses = 0
                   /\ self'.staging_list = self.staging_list
                   /\ self'.should_purge = self.should_purge
                   /\ self'.callback = self.callback
                   /\ IF frame'[t].pc = "idle"
                        THEN ret'.op = "clear" /\ ret'.status = "ok"
                        ELSE frame'[t].op = "clear"
             /\ (frame[t].op = "clear" /\ frame'[t] # frame[t]) =>
                   /\ self' = self
                   /\ ret'.op = "clear" /\ ret'.status = "ok"]_vars

\* clear() has emptied a container that has a callback and held an entry
\* whose destructor is foreign code: the destructor is running, nothing is
\* staged
C21_Witness ==
    \E t \in Threads :
        /\ frame[t].op = "clear" /\ frame[t].pc = "dealloc"
        /\ self.callback # NULL /\ lru_length_impl(self) = 0
        /\ self.staging_list = <<>>


\* C22: the body of setdefault(k, d) does exactly one of two things.  With k
\* present it returns the stored value, moves k to the head of the list,
\* adds one to hits and leaves the entries and misses alone.  With k absent it inserts
\* (k, d) at the head, evicting the last entry when the container is full,
\* returns d and leaves hits and misses as they were.
C22_SetDefaultHitOrInsert ==
    [][\A t \in Threads :
          ((ret'.op = "setdefault" \/ frame'[t].op = "setdefault")
             /\ frame'[t].pc # "crit" /\ frame'[t] # frame[t]
             /\ frame[t].pc \in {"idle", "crit"}) =>
          LET ks == LRU_keys(self)
              rv == IF frame'[t].pc = "idle" THEN ret'.val ELSE frame'[t].rv
              Effect(k, d) ==
                LET Other(x) == x # k
                    Kept(x) == x # k /\ x # ks[Len(ks)]
                IN IF self.dict[k] # NULL
                     THEN /\ rv = Value(self, k)
                          /\ LRU_keys(self') = <<k>> \o SelectSeq(ks, Other)
                          /\ \A x \in Keys : Value(self', x) = Value(self, x)
                          /\ self'.hits = self.hits + 1
                          /\ self'.misses = self.misses
                     ELSE /\ rv = d
                          /\ LRU_keys(self') =
                               <<k>> \o (IF Len(ks) >= self.size
                                           THEN SelectSeq(ks, Kept) ELSE ks)
                          /\ \A x \in Keys :
                               Value(self', x) =
                                 IF x = k THEN d
                                 ELSE IF x \in Range(LRU_keys(self'))
                                   THEN Value(self, x) ELSE NULL
                          /\ self'.hits = self.hits
                          /\ self'.misses = self.misses
          IN /\ \A k \in Keys, d \in Vals :
                  (Idle(t) /\ SetDefault(t, k, d)) => Effect(k, d)
             /\ (frame[t].pc = "crit" /\ Resume(t)) =>
                  Effect(frame[t].key, frame[t].val)]_vars

\* setdefault has inserted an absent key into a full container of two
\* entries and is handing the evicted entry to the callback; no counter has
\* moved
C22_Witness ==
    \E t \in Threads :
        /\ frame[t].op = "setdefault" /\ frame[t].pc = "callback"
        /\ frame[t].rv # NULL /\ Len(LRU_keys(self)) = 2
        /\ self.hits = 0 /\ self.misses = 0


\* C23: the body of a lookup, get or pop adds one to hits and leaves misses
\* alone when the key is stored, and adds one to misses and leaves hits
\* alone when it is not; no other step of these calls, and no step of
\* assign, remove, contains, popitem, peek_first, peek_last, update or
\* resize, changes either counter
C23_CountersMoveOnRetrievalOnly ==
    [][\A t \in Threads :
          frame'[t] # frame[t] =>
          LET op == IF frame'[t].pc = "idle" THEN ret'.op ELSE frame'[t].op
              Same == self'.hits = self.hits /\ self'.misses = self.misses
              Counted(k) ==
                IF self.dict[k] # NULL
                  THEN self'.hits = self.hits + 1
                       /\ self'.misses = self.misses
                  ELSE self'.misses = self.misses + 1
                       /\ self'.hits = self.hits
          IN /\ op \in {"assign", "remove", "contains", "popitem",
                        "peek_first", "peek_last", "update", "resize"}
                  => Same
             /\ op \in {"lookup", "get", "pop"} =>
                  IF frame'[t].pc = "crit" \/ frame[t].pc = "dealloc"
                    THEN Same
                  ELSE IF frame[t].pc = "crit"
                    THEN Counted(frame[t].key)
                  ELSE /\ \A k \in Keys : Lookup(t, k) => Counted(k)
                       /\ \A k \in Keys, d \in {1} :
                             Get(t, k, d) => Counted(k)
                       /\ \A k \in Keys, d \in {NULL, 1} :
                             Pop(t, k, d) => Counted(k)]_vars

\* pop with a default has returned the default for a key that is not
\* stored: the miss is counted and hits is untouched
C23_Witness ==
    /\ ret.op = "pop" /\ ret.status = "ok" /\ ret.val # NULL
    /\ self.misses = 1 /\ self.hits = 0
    /\ lru_length_impl(self) = 2


C25_PopItemTakesRequestedEnd ==
    [][\A t \in Threads :
          (ret'.op = "popitem" /\ frame'[t] # frame[t]
             /\ frame[t].pc \in {"idle", "crit"}) =>
          LET ks == LRU_keys(self)
              Effect(lr) ==
                IF ks = <<>>
                  THEN /\ ret'.status = "KeyError"
                       /\ self'.dict = self.dict /\ self'.node = self.node
                       /\ LRU_keys(self') = <<>>
                       /\ self'.staging_list = self.staging_list
                  ELSE LET k == IF lr = 1 THEN ks[Len(ks)] ELSE ks[1]
                           Other(x) == x # k
                       IN /\ ret'.status = "ok"
                          /\ ret'.key = k /\ ret'.val = Value(self, k)
                          /\ self'.dict[k] = NULL
                          /\ LRU_keys(self') = SelectSeq(ks, Other)
                          /\ \A x \in Keys \ {k} :
                                Value(self', x) = Value(self, x)
          IN /\ frame'[t].pc = "idle"
             /\ \A lr \in {0, 1} : (Idle(t) /\ PopItem(t, lr)) => Effect(lr)
             /\ (frame[t].pc = "crit" /\ Resume(t)) => Effect(frame[t].val)]_vars

\* popitem has returned one of the two entries of a container and the
\* other is left
C25_Witness ==
    /\ ret.op = "popitem" /\ ret.status = "ok" /\ ret.key # NULL
    /\ Len(LRU_keys(self)) = 1 /\ self.size = 2
    /\ self.dict[ret.key] = NULL


\* the pairs update() has not applied yet: the rest of its first source,
\* then its other sources
RECURSIVE C26_Flatten(_)
C26_Flatten(ss) == IF ss = <<>> THEN <<>> ELSE Head(ss) \o C26_Flatten(Tail(ss))
C26_Remaining(f) ==
    IF f.srcs = <<>> THEN <<>>
    ELSE SubSeq(Head(f.srcs), f.pos + 1, Len(Head(f.srcs)))
            \o C26_Flatten(Tail(f.srcs))

\* an assignment for each pair, in order, on the reference map; ev collects
\* the entries the assignments evict
RECURSIVE C26_AssignEach(_, _, _)
C26_AssignEach(a, ev, pairs) ==
    IF pairs = <<>> THEN [a |-> a, ev |-> ev]
    ELSE LET pr == Head(pairs)
             full == ~AbsHas(a, pr.key) /\ Len(a.keys) >= a.cap
             last == a.keys[Len(a.keys)]
         IN  C26_AssignEach(
                 AbsPut(a, pr.key, pr.value),
                 IF full THEN Append(ev, [key |-> last, value |-> a.val[last]])
                         ELSE ev,
                 Tail(pairs))

\* C26: every pass of update() applies the next pairs of its sources,
\* without skipping or repeating one and positional source first, and
\* update() ends with no pair left; after each pass the entries, their order
\* and the entries staged since the pass began are those that an assignment
\* for each applied pair, in order, gives
C26_UpdateAsAssignments ==
    [][\A t \in Threads :
          ((ret'.op = "update" \/ frame'[t].op = "update")
             /\ frame'[t] # frame[t]
             /\ frame[t].pc \in {"idle", "crit", "sweep"}) =>
          LET Effect(f) ==
                LET before == C26_Remaining(f)
                    after == C26_Remaining(frame'[t])
                    n == Len(before) - Len(after)
                    r == C26_AssignEach(
                            [keys |-> LRU_keys(self),
                             val |-> [k \in Keys |-> Value(self, k)],
                             cap |-> self.size],
                            <<>>, SubSeq(before, 1, n))
                IN /\ n >= 0
                   /\ after = SubSeq(before, n + 1, Len(before))
                   /\ frame'[t].pc \notin {"crit", "sweep"} => after = <<>>
                   /\ LRU_keys(self') = r.a.keys
                   /\ \A k \in Keys : Value(self', k) = r.a.val[k]
                   /\ self'.size = self.size
                   /\ self.callback # NULL =>
                         self'.staging_list = self.staging_list \o r.ev
                   /\ (self.callback = NULL
                         /\ (self.purge_suspended \/ after # <<>>)) =>
                         self'.staging_list =
                            self.staging_list \o SelectSeq(r.ev, ItemUnsafe)
          IN IF Idle(t)
               THEN \A srcs \in UpdateSrcs :
                       UpdateBatched(t, srcs) => Effect(CallUpdate(self, srcs))
               ELSE Effect(frame[t])]_vars

\* update() is between two passes: it has applied two pairs of its first
\* source, which filled the buffer of replaced values, and is releasing them
C26_Witness ==
    \E t \in Threads :
        /\ frame[t].op = "update" /\ frame[t].pc = "sweep"
        /\ frame[t].pos = 2 /\ Len(frame[t].srcs) = 2


\* update() in thread t is about to run a pass of lru_update_with: it is
\* suspended at the start of the pass or releasing the buffer of the one
\* before, with a source still to read
C27_PassAhead(t) ==
    /\ frame[t].op = "update" /\ frame[t].pc \in {"crit", "sweep"}
    /\ frame[t].srcs # <<>>
\* the pass thread t is about to run, as lru_update_fill_buffer computes it
C27_Pass(t) ==
    lru_update_fill_buffer(LRU_ENTER_CRIT(self), abs, Head(frame[t].srcs),
                           frame[t].pos, <<>>, frame[t].blen)

\* C27 as stated: a pass of update() makes at most BatchMax calls of
\* lru_push_impl between setting and clearing internal_busy, whether the
\* pairs add keys or replace values
C27_AtMostBatchPushesPerPass ==
    \A t \in Threads :
        C27_PassAhead(t) => C27_Pass(t).pos - frame[t].pos <= BatchMax

\* C27 amended: a pass buffers at most min(BatchMax, size) replaced values
\* and ends before its source is exhausted only when the buffer is full;
\* when every pair it reads replaces the value of a stored key, it makes as
\* many pushes as it buffers values.  Pushes that add a key are not counted.
C27_AtMostBatchReplacedPerPass ==
    \A t \in Threads :
        C27_PassAhead(t) =>
          LET f == frame[t]
              src == Head(f.srcs)
              r == C27_Pass(t)
          IN /\ f.blen = Min(BatchMax, self.size)
             /\ Len(r.buf) <= f.blen
             /\ r.status = 1 => Len(r.buf) = f.blen
             /\ r.status = 0 => r.pos = Len(src)
             /\ (\A j \in (f.pos + 1)..r.pos : self.dict[src[j].key] # NULL)
                   => r.pos - f.pos = Len(r.buf)

\* a pass is about to replace the values of stored keys: it will fill the
\* buffer and stop with a pair of its source left for the next pass
C27_Witness ==
    \E t \in Threads :
        /\ C27_PassAhead(t)
        /\ C27_Pass(t).status = 1
        /\ Len(C27_Pass(t).buf) = BatchMax
        /\ C27_Pass(t).pos < Len(Head(frame[t].srcs))


\* C28 as stated: when a pass of update() is about to begin after an
\* earlier pass changed the container, the staging list has been drained
\* (purging is not suspended and no drain is in progress)
C28_DrainedBeforeNextPass ==
    \A t \in Threads :
        (/\ frame[t].op = "update" /\ frame[t].pc = "crit" /\ frame[t].chg
         /\ ~self.purge_suspended /\ ~self.purge_busy)
           => self.staging_list = <<>>

\* C28 amended: update() drains the staging list once, after its last
\* pass.  While passes remain, no step of update() starts a drain and the
\* staging list only grows; the step that ends the last pass starts the
\* drain of everything staged (unless purging is suspended): the callback
\* walk covers the whole staging list, and without a callback the list is
\* emptied.
C28_DrainedOnceAfterLastPass ==
    [][\A t \in Threads :
          ((ret'.op = "update" \/ frame'[t].op = "update")
             /\ frame'[t] # frame[t]
             /\ frame[t].pc \in {"idle", "crit", "sweep"}) =>
          LET old == self.staging_list
              new == self'.staging_list
          IN IF frame'[t].pc \in {"crit", "sweep"}
               THEN /\ Len(new) >= Len(old)
                    /\ SubSeq(new, 1, Len(old)) = old
                    /\ self'.purge_busy = self.purge_busy
               ELSE self.purge_suspended
                    \/ IF self.callback = NULL
                         THEN new = <<>>
                         ELSE /\ SubSeq(new, 1, Len(old)) = old
                              /\ new = <<>> \/
                                   /\ frame'[t].pc = "callback"
                                   /\ frame'[t].len = Len(new)]_vars

\* update() is about to begin the pass over its second source while the
\* two entries its first pass evicted are still staged, with a callback
\* installed and purging not suspended
C28_Witness ==
    \E t \in Threads :
        /\ frame[t].op = "update" /\ frame[t].pc = "crit" /\ frame[t].chg
        /\ Len(frame[t].srcs) = 1 /\ frame[t].pos = 0
        /\ Len(self.staging_list) >= 2
        /\ self.callback # NULL /\ ~self.purge_suspended


\* C29 as stated: a call of lookup, get, assign, remove, setdefault or pop
\* is suspended inside its critical section only by a comparison of keys:
\* the hash of its key was computed before internal_busy was set
C29_HashBeforeCritical ==
    \A t \in Threads :
        (/\ frame[t].pc = "crit"
         /\ frame[t].op \in {"lookup", "get", "assign", "remove",
                             "setdefault", "pop"})
           => ProbeMaySuspend(self, frame[t].key)

\* C29 amended: assign, remove and setdefault compute the hash before
\* internal_busy is set, so inside their critical section only a comparison
\* of keys can run foreign code; lookup, get and pop leave the hashing to
\* the dict, inside the critical section, so a call of these is suspended
\* there also by the hash function of its key alone
C29_HashBeforeCriticalInWrites ==
    \A t \in Threads :
        frame[t].pc = "crit" =>
           /\ self.internal_busy
           /\ frame[t].op \in {"assign", "remove", "setdefault"}
                 => ProbeMaySuspend(self, frame[t].key)
           /\ frame[t].op \in {"lookup", "get", "pop"}
                 => \/ ProbeMaySuspend(self, frame[t].key)
                    \/ HashMaySuspend(frame[t].key)

\* a lookup is suspended inside its critical section in the hash function
\* of its key: the container is empty, so no keys are compared
C29_Witness ==
    \E t \in Threads :
        /\ frame[t].pc = "crit" /\ frame[t].op = "lookup"
        /\ lru_length_impl(self) = 0 /\ self.internal_busy
        /\ HashMaySuspend(frame[t].key)


C31_NeverRefusedWhenOff ==
    [][~self.detect_conflict => ret'.status # "BusyError"]_vars

\* with the flag off an assignment was entered while another call was
\* suspended inside its critical section, and has returned normally: it has
\* cleared internal_busy under the suspended call
C31_Witness ==
    \E t \in Threads :
        /\ ~self.detect_conflict
        /\ frame[t].pc = "crit" /\ ~self.internal_busy
        /\ ret.op = "assign" /\ ret.status = "ok"


\* the calls that do not change the container (contains, the peeks) or that
\* only drain it (purge), and the calls that enter the critical section; an
\* update without a source never reaches lru_update_with
C32_Observing(t) ==
    \/ \E k \in Keys : Contains(t, k)
    \/ PeekFirst(t)
    \/ PeekLast(t)
    \/ Purge(t)
C32_Unprotected(t) == C32_Observing(t) \/ Update(t, << >>)
C32_Protected(t) ==
    \/ \E k \in Keys : Lookup(t, k)
    \/ \E k \in Keys, d \in Vals : Get(t, k, d)
    \/ \E k \in Keys, v \in Vals : Assign(t, k, v)
    \/ \E k \in Keys : Remove(t, k)
    \/ \E k \in Keys, d \in Vals : SetDefault(t, k, d)
    \/ \E k \in Keys, d \in Vals \cup {NULL} : Pop(t, k, d)
    \/ \E lr \in {0, 1} : PopItem(t, lr)
    \/ Clear(t)
    \/ \E n \in 0..MaxSize : Resize(t, n)
    \/ \E srcs \in UpdateSources \ {<< >>} : Update(t, srcs)
    \/ \E c \in Callbacks \cup {NULL} : SetCallback(t, c)

C33_ObservationsArePure ==
    [][\A t \in Threads :
         (ret'.op \in {"contains", "peek_first", "peek_last"} /\ Idle(t)) =>
            /\ \A k \in Keys : Contains(t, k) =>
                  /\ UNCHANGED <<self, frame, abs, pqvars>>
                  /\ (ret'.val = 1) <=>
                        (LRU_subscript(LRU_ENTER_CRIT(self),
                                       Call("lookup", k, NULL)).ret.status
                            = "ok")
            /\ (PeekFirst(t) \/ PeekLast(t)) =>
                  /\ UNCHANGED <<self, frame, abs, pqvars>>
                  /\ LET keys == LRU_keys(self)
                     IN  IF keys = << >>
                           THEN ret'.status = "KeyError"
                           ELSE /\ ret'.status = "ok"
                                /\ ret'.key =
                                     IF ret'.op = "peek_first"
                                       THEN keys[1] ELSE keys[Len(keys)]
                                /\ ret'.val = Value(self, ret'.key)]_vars

\* contains has answered true on a container of two entries with counted
\* hits and a callback installed
C33_Witness ==
    /\ ret.op = "contains" /\ ret.val = 1
    /\ lru_length_impl(self) = 2
    /\ self.hits > 0 /\ self.callback # NULL


RECURSIVE C34_Forward(_, _, _)
\* the nodes met from n along ->next, and from n along ->prev
C34_Forward(L, n, fuel) ==
    IF n = NULL \/ fuel = 0 THEN << >>
    ELSE <<n>> \o C34_Forward(L, L.node[n].next, fuel - 1)
RECURSIVE C34_Backward(_, _, _)
C34_Backward(L, n, fuel) ==
    IF n = NULL \/ fuel = 0 THEN << >>
    ELSE <<n>> \o C34_Backward(L, L.node[n].prev, fuel - 1)

\* C34: whenever no call is in progress, the walk from self->first along
\* ->next meets exactly the nodes the dict holds, each once and under its
\* own key, and ends at self->last; the walk from self->last along ->prev
\* meets the same nodes in the reverse order; first and last are both NULL
\* exactly when the container is empty
C34_ListMatchesDict ==
    Quiescent =>
        LET fuel == Cardinality(NodeIds) + 1
            fwd == C34_Forward(self, self.first, fuel)
            bwd == C34_Backward(self, self.last, fuel)
            n == Len(fwd)
        IN  /\ n = Cardinality(StoredKeys(self))
            /\ {self.node[fwd[i]].key : i \in 1..n} = StoredKeys(self)
            /\ \A i \in 1..n : self.dict[self.node[fwd[i]].key] = fwd[i]
            /\ \A i, j \in 1..n : fwd[i] = fwd[j] => i = j
            /\ n > 0 => fwd[n] = self.last
            /\ Len(bwd) = n
            /\ \A i \in 1..n : bwd[i] = fwd[n + 1 - i]
            /\ (self.first = NULL) <=> (n = 0)
            /\ (self.last = NULL) <=> (n = 0)

\* a lookup has moved the tail of a list of two to the head, and no call is
\* in progress
C34_Witness ==
    /\ Quiescent
    /\ ret.op = "lookup" /\ ret.status = "ok"
    /\ lru_length_impl(self) = 2
    /\ self.first # self.last
    /\ self.node[self.first].value = ret.val
    /\ self.node[self.last].prev = self.first


\* worker w is inside the for loop of lrupq_purge over its range [head, tail)
C35_Walking(w) == wk[w].pc = "walk"

\* C35: the list slots before head are cut off only when no drain is
\* walking its claimed range; the ranges of the drains that walk at the same
\* time are pairwise disjoint; and every slot of a walking drain's range is
\* a slot of the list, so none was cut off or moved under it
C35_ClaimedRangesDisjoint ==
    /\ [](\A w, u \in Workers :
             (w # u /\ C35_Walking(w) /\ C35_Walking(u)) =>
                (wk[w].tail <= wk[u].head \/ wk[u].tail <= wk[w].head))
    /\ [](\A w \in Workers : C35_Walking(w) => wk[w].tail <= Len(pq.lst))
    /\ [][Len(pq'.lst) < Len(pq.lst) =>
             \A w \in Workers : wk'[w].pc # "walk"]_vars


\* C36: in every reachable state 0 <= head <= tail and
\* 0 <= pending_requests <= PENDING_MAX, and pending_requests is 0 whenever
\* no drain is active: every way out of lrupq_purge, the return of -2 after
\* a failure that is not swallowed included, takes back what the call added
C36_QueueCountersInRange ==
    /\ 0 <= pq.head /\ pq.head <= pq.tail
    /\ 0 <= pq.pending_requests /\ pq.pending_requests <= PENDING_MAX
    /\ (\A w \in Workers : wk[w].pc = "idle") => pq.pending_requests = 0
    /\ pq.pending_requests =
          Cardinality({w \in Workers : wk[w].pc # "idle"})

\* a drain was abandoned with -2 after a callback failure that is not
\* swallowed, nodes are still waiting, and no drain is active
C36_Witness ==
    /\ \A w \in Workers : wk[w].pc = "idle"
    /\ \E w \in Workers : wk[w].res = -2
    /\ pqenv.bad /\ pq.head < pq.tail
    /\ pq.pending_requests = 0


\* C37: an evicted entry is appended to the staging list exactly when a
\* callback is installed at the eviction or its key or value is not of a
\* kind that is safe to release; otherwise it is released at once and never
\* enters the staging list, the only place the callback is fed from.
\* Observed with purging suspended, so that the purge at the end of the
\* call leaves the staging list as the evictions made it: every entry a
\* step of assign, setdefault, resize or update adds had a callback or an
\* unsafe part, and every entry an assign, setdefault or resize removes from
\* the dict is added exactly in that case
C37_StagedExactlyWhenNeeded ==
    [][\A t \in Threads :
         LET op == IF ret'.op # "none" THEN ret'.op ELSE frame'[t].op
             old == self.staging_list
             new == SubSeq(self'.staging_list, Len(old) + 1,
                           Len(self'.staging_list))
             gone == {[key |-> k, value |-> Value(self, k)] :
                         k \in StoredKeys(self) \ StoredKeys(self')}
             needed(it) == self.callback # NULL \/ ItemUnsafe(it)
         IN  (/\ self.purge_suspended
              /\ op \in {"assign", "setdefault", "resize", "update"}) =>
                /\ Len(self'.staging_list) >= Len(old)
                /\ SubSeq(self'.staging_list, 1, Len(old)) = old
                /\ \A j \in 1..Len(new) : needed(new[j])
                /\ op # "update" =>
                      /\ Range(new) \subseteq gone
                      /\ \A it \in gone : it \in Range(new) <=> needed(it)
                      /\ Len(new) = Cardinality(Range(new))
                /\ new # << >> => self'.should_purge]_vars

\* with purging suspended and no callback installed an assignment has
\* evicted an entry with an unsafe part, which waits in the staging list
C37_Witness ==
    /\ self.purge_suspended /\ self.callback = NULL
    /\ ret.op = "assign" /\ ret.status = "ok"
    /\ Len(self.staging_list) = 1 /\ ItemUnsafe(self.staging_list[1])
    /\ lru_length_impl(self) = self.size


\* the operation a step belongs to: the one that returned, or the one the
\* stepping thread is inside after the step
C38_Op(t) == IF ret'.op # "none" THEN ret'.op ELSE frame'[t].op

\* C38: remove, pop and popitem leave the staging list and should_purge as
\* they were and start no callback, so the entry they remove never reaches
\* the callback; the staging list grows only in steps of assign, setdefault,
\* update and resize, the calls that evict for capacity
C38_RemovalsBypassCallback ==
    [][\A t \in Threads :
         /\ C38_Op(t) \in {"remove", "pop", "popitem"} =>
               /\ self'.staging_list = self.staging_list
               /\ self'.should_purge = self.should_purge
               /\ self'.purge_busy = self.purge_busy
               /\ \A u \in Threads : frame'[u].pc # "callback"
         /\ (frame'[t] # frame[t] \/ ret'.op # "none") =>
               (Len(self'.staging_list) > Len(self.staging_list) =>
                   C38_Op(t) \in {"assign", "setdefault", "update",
                                  "resize"})]_vars

\* with a callback installed and an evicted entry waiting in the staging
\* list, a popitem has removed an entry and returned it
C38_Witness ==
    /\ ret.op = "popitem" /\ ret.status = "ok"
    /\ self.callback # NULL
    /\ Len(self.staging_list) = 1 /\ self.should_purge
    /\ self.staging_list[1].key # ret.key


C40_CallbackReleasedAfterLeave ==
    \A t \in Threads :
        (frame[t].op = "set_callback" /\ frame[t].pc = "cb_dealloc")
           => ~self.internal_busy

====
